---- MODULE Spec2Model ----
(***************************************************************************)
(* The orchestration scheduler (AgentRunner) of the smart task scheduler,  *)
(* with the agents it drives and the sqlite-backed store they share.       *)
(*                                                                         *)
(* Node runs one callback at a time: every action below is the code that   *)
(* runs between two awaits of one asynchronous call.  An asynchronous call *)
(* (a cron callback, an HTTP request, the start-up timeout) is a record of *)
(* the bag act; its pc is the await it is suspended at.                    *)
(* A store write can fail (the sqlite statement rejects): every completion *)
(* of a write takes its outcome from BOOLEAN.                              *)
(* The model carries no clock: the minutes since a stored instant are an   *)
(* input of the step that reads it, and lastRun is the serial number of    *)
(* the successful run that set it.                                         *)
(***************************************************************************)
EXTENDS Integers, Sequences, FiniteSets, Bags, TLC

\* ---------------------------------------------------------------- bounds
MaxAct == 2          \* asynchronous calls that exist at the same time
MaxCalls == 2        \* HTTP requests and cron firings, in one behaviour
MaxFaults == 1       \* store writes that fail, in one behaviour

\* ------------------------------------------------------ program constants
DataFreshMinutes == 20
PlanFreshHours == 2

None == -1
Stored == 0          \* a stored ISO instant

Agents == {"collector", "planner", "executor", "reviewer"}
JobNames == Agents \cup {"fullWorkflow"}

\* minutes between a stored instant and the read of it
Elapsed == {DataFreshMinutes - 1, DataFreshMinutes, PlanFreshHours * 60}

VARIABLES ready, isRunning, jobs, initialPending, metrics, loaded, db, log, act, calls,
          faults

\* One run of an agent's execute() and the tables it works on, followed step
\* by step in the specifications below Spec; Spec itself takes an agent's
\* run as one step and leaves these alone.
VARIABLES planning,              \* the activation of PlannerAgent.execute
          conflict_resolutions,  \* the rows of table conflict_resolutions
          learning_data,         \* table learning_data, key -> value
          freshness,             \* a call of isDataFresh or isPlanFresh
          reviewing,             \* the activations of ReviewerAgent.execute
          executing,             \* the activation of ExecutorAgent.execute
          services               \* Google Calendar, Notion and Telegram

runnerVars == <<ready, isRunning, jobs, initialPending, metrics, loaded, act, calls,
                faults>>

executorVars == <<executing, services>>

agentVars == <<planning, conflict_resolutions, learning_data, freshness, reviewing,
               executorVars>>

vars == <<ready, isRunning, jobs, initialPending, metrics, loaded, db, log, act, calls,
          faults, planning, conflict_resolutions, learning_data, freshness,
          reviewing, executing, services>>

\* ----------------------------------------------------------------- values
ZeroMetrics == [totalRuns |-> 0, successfulRuns |-> 0, errors |-> 0, lastRun |-> None]

\* what a previous process may have left under runner_metrics
OldMetrics == [totalRuns |-> 1, successfulRuns |-> 1, errors |-> 0, lastRun |-> 1]

NoSnap == [isRunning |-> FALSE, activeJobs |-> 0, metrics |-> ZeroMetrics]

EmptyDb == [runner_metrics |-> <<>>, system_health |-> <<>>,
            latest_collected_data |-> None, last_collection_time |-> None,
            latest_plan |-> None, last_planning_time |-> None]

\* no row under any key of learning_data
EmptyLearning == [task_patterns |-> <<>>, performance_insights |-> <<>>,
                  user_preferences |-> <<>>]

NoPlanning == [pc |-> "idle"]

NoQuery == [pc |-> "idle"]

NoReviews == <<>>

NoExecuting == [pc |-> "idle"]

\* no event in the calendar, no page in Notion, no message sent
NoServices == [calendar |-> <<>>, notion |-> <<>>, telegram |-> 0]

executorIdle == executing = NoExecuting /\ services = NoServices

agentsIdle ==
    /\ executorIdle
    /\ planning = NoPlanning
    /\ conflict_resolutions = <<>>
    /\ learning_data = EmptyLearning
    /\ freshness = NoQuery
    /\ reviewing = NoReviews

NewCall == [kind |-> "none", origin |-> "none", pc |-> "idle", agent |-> "none",
            standalone |-> FALSE, ctx |-> "none", res |-> "none",
            coll |-> "unset", plan |-> "unset", exec |-> "unset", hasPlan |-> FALSE,
            logged |-> "none", snap |-> NoSnap, recs |-> 0, appFail |-> FALSE,
            ret |-> "none"]

agentClassName(n) ==
    CASE n = "collector" -> "CollectorAgent"
      [] n = "planner" -> "PlannerAgent"
      [] n = "executor" -> "ExecutorAgent"
      [] n = "reviewer" -> "ReviewerAgent"

runnerLogName(n) ==
    CASE n = "collector" -> "COLLECTOR_RUNNER"
      [] n = "planner" -> "PLANNER_RUNNER"
      [] n = "executor" -> "EXECUTOR_RUNNER"
      [] n = "reviewer" -> "REVIEWER_RUNNER"

\* ------------------------------------------------------------------ store
\* INSERT OR REPLACE keyed on agent_name, as the other two tables are written
logReplacesByName(l, agentName, status) ==
    LET kept == {x \in BagToSet(l) : x.agent # agentName}
    IN  [x \in kept |-> l[x]] (+) SetToBag({[agent |-> agentName, status |-> status]})

\* INSERT INTO agent_logs: one more row, the rows before it untouched.
\* agent_logs is the bag of its rows (agent_name, status).
logAgentExecution(l, agentName, status) ==
    l (+) SetToBag({[agent |-> agentName, status |-> status]})

\* INSERT OR REPLACE INTO system_state: the key's whole value is replaced
setState(d, key, value) == [d EXCEPT ![key] = value]

\* diffMinutes = (now - lastTime) / (1000 * 60)
isDataFresh(d, diffMinutes) ==
    /\ d.last_collection_time # None
    /\ diffMinutes < DataFreshMinutes

\* diffHours <= 2
isPlanFreshInclusive(d, diffMinutes) ==
    /\ d.last_planning_time # None
    /\ diffMinutes <= PlanFreshHours * 60

\* diffHours = (now - lastTime) / (1000 * 60 * 60), here in minutes
isPlanFresh(d, diffMinutes) ==
    /\ d.last_planning_time # None
    /\ diffMinutes < PlanFreshHours * 60

\* the input an agent's execute() throws without
inputAvailable(n, d) ==
    CASE n = "planner" -> d.latest_collected_data # None
      [] n = "executor" -> d.latest_plan # None
      [] OTHER -> TRUE

\* the state an agent's execute() stores before it logs its success
agentWrites(n, d) ==
    CASE n = "collector" ->
            setState(setState(d, "latest_collected_data", Stored),
                     "last_collection_time", Stored)
      [] n = "planner" ->
            setState(setState(d, "latest_plan", Stored), "last_planning_time", Stored)
      [] OTHER -> d

\* ------------------------------------------------------------------- Init
Init ==
    /\ ready = FALSE
    /\ isRunning = FALSE
    /\ jobs = {}
    /\ initialPending = 0
    /\ metrics = ZeroMetrics
    /\ loaded = ZeroMetrics
    /\ db \in {EmptyDb, setState(EmptyDb, "runner_metrics", <<OldMetrics>>)}
    /\ log = EmptyBag
    /\ act = EmptyBag
    /\ calls = 0
    /\ faults = 0
    /\ agentsIdle

\* ----------------------------------------------------------- AgentRunner
\* this.metrics = { ...this.metrics, ...stored }: stored holds all four fields
loadMetrics(m, d) ==
    IF d.runner_metrics # <<>> THEN d.runner_metrics[1] ELSE m

initialize ==
    /\ ~ready
    /\ ready' = TRUE
    /\ metrics' = loadMetrics(metrics, db)
    /\ loaded' = loadMetrics(metrics, db)
    /\ UNCHANGED <<isRunning, jobs, initialPending, db, log, act, calls, faults>>
    /\ UNCHANGED agentVars

Calls == BagToSet(act)

\* A settled call's continuation in its caller (the HTTP handler, the cron
\* callback) is a microtask: it runs before any other callback does.
\* k more store writes fail
fault(k) ==
    /\ faults + k <= MaxFaults
    /\ faults' = faults + k

quiet == \A r \in Calls : r.pc # "done"

hasRoom == quiet /\ BagCardinality(act) < MaxAct

canCall == hasRoom /\ calls < MaxCalls

\* a call of runAgent is between its totalRuns++ and its return
inRun(r) ==
    \/ r.pc \in {"executing", "log_critical"}
    \/ r.pc \in {"save_metrics", "save_health"} /\ r.ctx \in {"try", "catch"}

call(r) ==
    /\ act' = act (+) SetToBag({r})
    /\ calls' = calls + 1
    /\ UNCHANGED <<faults, agentVars>>

\* the call made by the timeout that start has set
callByTimeout(r) ==
    /\ act' = act (+) SetToBag({r})
    /\ UNCHANGED <<calls, faults, agentVars>>

becomes(r, r2) ==
    /\ act' = (act (-) SetToBag({r})) (+) SetToBag({r2})
    /\ UNCHANGED <<calls, agentVars>>

\* runAgent, lines 127-133: totalRuns++ and the call of agent.execute()
countRun(m) == [m EXCEPT !.totalRuns = @ + 1]

beginRun(r, n, sa) ==
    [r EXCEPT !.agent = n, !.standalone = sa, !.pc = "executing", !.res = "none",
              !.recs = 0, !.appFail = FALSE]

\* saveMetrics is called: setState('runner_metrics', this.metrics) serialises
\* the counters as they are at the call; the write lands when it completes
callSaveMetrics(r, c, m) ==
    [r EXCEPT !.pc = "save_metrics", !.ctx = c, !.snap = [NoSnap EXCEPT !.metrics = m]]

\* the call r settles with v
returns(r, v) == [r EXCEPT !.pc = "done", !.ret = v, !.ctx = "none", !.snap = NoSnap]

\* the result of a phase is not looked at
resultUnchecked(v) == FALSE

\* if (!collectionResult), if (!planningResult)
isFalsy(v) == v # "ok"

\* the order of the phases in runFullWorkflow
firstPhase == "collector"

\* the executor is started where the planner should be
plannerSkipped(n) == "executor"

nextPhase(n) == IF n = "collector" THEN "planner" ELSE "executor"

\* runFullWorkflow after runAgent has returned v (or thrown) for phase r.agent
workflowContinues(r, v) ==
    LET r1 == CASE r.agent = "collector" -> [r EXCEPT !.coll = v]
                [] r.agent = "planner" -> [r EXCEPT !.plan = v]
                [] OTHER -> [r EXCEPT !.exec = v]
    IN  IF v = "threw" THEN [r1 EXCEPT !.pc = "wf_log_failed"]
        ELSE IF r.agent = "executor" THEN [r1 EXCEPT !.pc = "wf_log_success"]
        ELSE IF isFalsy(v) THEN [r1 EXCEPT !.pc = "wf_log_failed"]
        ELSE [r1 EXCEPT !.pc = "wait"]

\* runInitialWorkflow after runAgent has returned v (or thrown) for r.agent
initialContinues(r, v, m) ==
    IF v = "threw" THEN [r |-> returns(r, "threw"), m |-> m]
    ELSE IF r.agent = "collector" /\ ~r.hasPlan
         THEN [r |-> beginRun(r, "planner", FALSE), m |-> countRun(m)]
    ELSE [r |-> returns(r, "void"), m |-> m]

\* runAgent returns v to its caller ("threw": it rejects); m are the counters
runReturns(r, v, m) ==
    LET r1 == [r EXCEPT !.res = v, !.ctx = "none", !.snap = NoSnap]
    IN  CASE r.kind = "agent" -> [r |-> returns(r1, v), m |-> m]
          [] r.kind = "workflow" -> [r |-> workflowContinues(r1, v), m |-> m]
          [] OTHER -> initialContinues(r1, v, m)

\* start without its guard
guardMissing == FALSE

\* start, line 59
alreadyRunning == isRunning

start ==
    /\ ready /\ canCall
    /\ IF alreadyRunning
       THEN /\ call(returns([NewCall EXCEPT !.kind = "start", !.origin = "manual"],
                            "already"))
            /\ UNCHANGED <<isRunning, jobs, initialPending>>
       ELSE /\ isRunning' = TRUE
            /\ jobs' = JobNames
            /\ initialPending' = initialPending + 1
            /\ call(returns([NewCall EXCEPT !.kind = "start", !.origin = "manual"],
                            "started"))
    /\ UNCHANGED <<ready, metrics, loaded, db, log>>

\* stop up to its await of saveMetrics
stop ==
    /\ ready /\ canCall
    /\ jobs' = {}
    /\ isRunning' = FALSE
    /\ call(callSaveMetrics([NewCall EXCEPT !.kind = "stop", !.origin = "manual"],
                            "stop", metrics))
    /\ UNCHANGED <<ready, initialPending, metrics, loaded, db, log>>

\* runAgent(name, standalone) or runFullWorkflow() is called
invoke(j, origin) ==
    /\ canCall
    /\ metrics' = countRun(metrics)
    /\ IF j = "fullWorkflow"
       THEN call(beginRun([NewCall EXCEPT !.kind = "workflow", !.origin = origin],
                          firstPhase, FALSE))
       ELSE call(beginRun([NewCall EXCEPT !.kind = "agent", !.origin = origin],
                          j, origin = "manual"))
    /\ UNCHANGED <<ready, isRunning, jobs, initialPending, loaded, db, log>>

\* a cron job registered by start fires
timerFires(j) ==
    /\ ready /\ j \in jobs
    /\ invoke(j, "timer")

\* triggerCollection .. triggerFullWorkflow, from POST /api/agents/trigger/:agentName
trigger(j) ==
    /\ ready
    /\ invoke(j, "manual")

UnknownNames == {"scheduler"}

\* runAgent with a name that is no key of this.agents, lines 121-125
runAgentUnknown(n) ==
    /\ ready /\ canCall
    /\ n \notin Agents
    /\ call(returns([NewCall EXCEPT !.kind = "agent", !.origin = "manual",
                                    !.agent = "unknown"], "null"))
    /\ UNCHANGED <<ready, isRunning, jobs, initialPending, metrics, loaded, db, log>>

\* the records a call's step added to agent_logs
appended(r, l2) == [r EXCEPT !.recs = @ + (BagCardinality(l2) - BagCardinality(log))]

\* agent.execute() settles, and runAgent runs on to its next await.
\* out = "ok": execute stored its state and logged 'success';
\* out = "logfail": it stored its state, the 'success' append failed;
\* out = "fail": it threw before storing anything.
\* In the last two the agent's catch logs 'error' (errOk: that append worked)
\* and rethrows; runAgent's catch counts the error and logs 'critical_error'.
agentExecuteSettles(r, out, errOk) ==
    LET n == r.agent
        d2 == IF out = "fail" THEN db ELSE agentWrites(n, db)
    IN  /\ quiet /\ r.pc = "executing"
        /\ out \in {"ok", "logfail"} => inputAvailable(n, db)
        /\ out = "ok" => errOk
        /\ fault((IF out = "logfail" THEN 1 ELSE 0) + (IF errOk THEN 0 ELSE 1))
        /\ db' = d2
        /\ IF out = "ok"
           THEN LET l2 == logAgentExecution(log, agentClassName(n), "success")
                    m2 == [metrics EXCEPT !.successfulRuns = @ + 1, !.lastRun = @ + 1]
                    r2 == appended(r, l2)
                    nx == IF r.standalone
                          THEN [r |-> callSaveMetrics(r2, "try", m2), m |-> m2]
                          ELSE runReturns(r2, "ok", m2)
                IN  /\ log' = l2
                    /\ metrics' = nx.m
                    /\ becomes(r, nx.r)
           ELSE LET l2 == IF errOk
                          THEN logAgentExecution(log, agentClassName(n), "error")
                          ELSE log
                    r2 == [appended(r, l2) EXCEPT
                             !.appFail = (out = "logfail") \/ ~errOk,
                             !.pc = "log_critical"]
                IN  /\ log' = l2
                    /\ metrics' = [metrics EXCEPT !.errors = @ + 1]
                    /\ becomes(r, r2)
        /\ UNCHANGED <<ready, isRunning, jobs, initialPending, loaded>>

\* runAgent's append of 'critical_error' settles, lines 154-166
logCriticalSettles(r, ok) ==
    LET l2 == IF ok THEN logAgentExecution(log, runnerLogName(r.agent), "critical_error")
              ELSE log
        r2 == [appended(r, l2) EXCEPT !.appFail = @ \/ ~ok]
        nx == IF ~ok THEN runReturns(r2, "threw", metrics)
              ELSE IF r.standalone
                   THEN [r |-> callSaveMetrics(r2, "catch", metrics), m |-> metrics]
              ELSE runReturns(r2, "null", metrics)
    IN  /\ quiet /\ r.pc = "log_critical"
        /\ fault(IF ok THEN 0 ELSE 1)
        /\ log' = l2
        /\ metrics' = nx.m
        /\ becomes(r, nx.r)
        /\ UNCHANGED <<ready, isRunning, jobs, initialPending, loaded, db>>

\* saveMetrics has thrown into its caller
saveMetricsThrows(r, m) ==
    CASE r.ctx = "try" ->
            [r |-> [r EXCEPT !.pc = "log_critical", !.ctx = "none", !.snap = NoSnap],
             m |-> [m EXCEPT !.errors = @ + 1]]
      [] r.ctx = "catch" -> runReturns(r, "threw", m)
      [] OTHER -> [r |-> returns(r, "threw"), m |-> m]

\* saveMetrics has returned to its caller
saveMetricsReturns(r, m) ==
    CASE r.ctx = "try" -> runReturns(r, "ok", m)
      [] r.ctx = "catch" -> runReturns(r, "null", m)
      [] OTHER -> [r |-> returns(r, "void"), m |-> m]

\* saveMetrics, line 298 settles; line 299 builds system_health and writes it
saveMetricsSettles(r, ok) ==
    LET nx == IF ok
              THEN [r |-> [r EXCEPT !.pc = "save_health",
                                    !.snap = [isRunning |-> isRunning,
                                              activeJobs |-> Cardinality(jobs),
                                              metrics |-> metrics]],
                    m |-> metrics]
              ELSE saveMetricsThrows(r, metrics)
    IN  /\ quiet /\ r.pc = "save_metrics"
        /\ fault(IF ok THEN 0 ELSE 1)
        /\ db' = IF ok THEN setState(db, "runner_metrics", <<r.snap.metrics>>) ELSE db
        /\ metrics' = nx.m
        /\ becomes(r, nx.r)
        /\ UNCHANGED <<ready, isRunning, jobs, initialPending, loaded, log>>

\* saveMetrics, line 299 settles
saveHealthSettles(r, ok) ==
    LET nx == IF ok THEN saveMetricsReturns(r, metrics) ELSE saveMetricsThrows(r, metrics)
    IN  /\ quiet /\ r.pc = "save_health"
        /\ fault(IF ok THEN 0 ELSE 1)
        /\ db' = IF ok THEN setState(db, "system_health", <<r.snap>>) ELSE db
        /\ metrics' = nx.m
        /\ becomes(r, nx.r)
        /\ UNCHANGED <<ready, isRunning, jobs, initialPending, loaded, log>>

\* runFullWorkflow: the setTimeout after a phase elapses, the next phase begins
workflowWaitElapses(r) ==
    /\ quiet /\ r.kind = "workflow" /\ r.pc = "wait"
    /\ UNCHANGED faults
    /\ metrics' = countRun(metrics)
    /\ becomes(r, beginRun(r, nextPhase(r.agent), FALSE))
    /\ UNCHANGED <<ready, isRunning, jobs, initialPending, loaded, db, log>>

\* runFullWorkflow: its append of the FULL_WORKFLOW record settles
workflowLogSettles(r, ok) ==
    LET status == IF r.pc = "wf_log_success" THEN "success" ELSE "failed"
    IN  /\ quiet /\ r.pc \in {"wf_log_success", "wf_log_failed"}
        /\ fault(IF ok THEN 0 ELSE 1)
        /\ log' = IF ok THEN logAgentExecution(log, "FULL_WORKFLOW", status) ELSE log
        /\ becomes(r, IF ok THEN callSaveMetrics([r EXCEPT !.logged = status],
                                                 "workflow", metrics)
                      ELSE IF r.pc = "wf_log_success"
                           THEN [r EXCEPT !.pc = "wf_log_failed"]
                      ELSE returns(r, "threw"))
        /\ UNCHANGED <<ready, isRunning, jobs, initialPending, metrics, loaded, db>>

\* the setTimeout of start, line 99, fires
initialTimeoutFires ==
    /\ ready /\ hasRoom
    /\ initialPending > 0
    /\ initialPending' = initialPending - 1
    /\ callByTimeout([NewCall EXCEPT !.kind = "initial", !.origin = "timer", !.pc = "init_check"])
    /\ UNCHANGED <<ready, isRunning, jobs, metrics, loaded, db, log>>

\* runInitialWorkflow, lines 253-264, up to its first runAgent
runInitialWorkflow(r, sinceData, sincePlan) ==
    LET hasData == isDataFresh(db, sinceData)
        hasPlan == isPlanFresh(db, sincePlan)
        r1 == [r EXCEPT !.hasPlan = hasPlan]
    IN  /\ quiet /\ r.pc = "init_check"
        /\ UNCHANGED faults
        /\ IF ~hasData
           THEN /\ becomes(r, beginRun(r1, "collector", FALSE))
                /\ metrics' = countRun(metrics)
           ELSE IF ~hasPlan
           THEN /\ becomes(r, beginRun(r1, "planner", FALSE))
                /\ metrics' = countRun(metrics)
           ELSE /\ becomes(r, returns(r1, "void"))
                /\ UNCHANGED metrics
        /\ UNCHANGED <<ready, isRunning, jobs, initialPending, loaded, db, log>>

\* the caller of a settled call is done with it
settled(r) ==
    /\ r.pc = "done"
    /\ act' = act (-) SetToBag({r})
    /\ UNCHANGED <<ready, isRunning, jobs, initialPending, metrics, loaded, db, log, calls,
                   faults, agentVars>>

Next ==
    \/ initialize
    \/ start
    \/ stop
    \/ \E j \in JobNames : timerFires(j)
    \/ \E j \in JobNames : trigger(j)
    \/ \E n \in UnknownNames : runAgentUnknown(n)
    \/ \E r \in Calls, out \in {"ok", "logfail", "fail"}, errOk \in BOOLEAN :
          agentExecuteSettles(r, out, errOk)
    \/ \E r \in Calls, ok \in BOOLEAN : logCriticalSettles(r, ok)
    \/ \E r \in Calls, ok \in BOOLEAN : saveMetricsSettles(r, ok)
    \/ \E r \in Calls, ok \in BOOLEAN : saveHealthSettles(r, ok)
    \/ \E r \in Calls : workflowWaitElapses(r)
    \/ \E r \in Calls, ok \in BOOLEAN : workflowLogSettles(r, ok)
    \/ initialTimeoutFires
    \/ \E r \in Calls, sinceData \in Elapsed, sincePlan \in Elapsed :
          runInitialWorkflow(r, sinceData, sincePlan)
    \/ \E r \in Calls : settled(r)

Spec == Init /\ [][Next]_vars

\* The scheduler after initialize() and start() have returned: the cron jobs
\* are registered and the start-up timeout is pending. calls counts the
\* requests and firings from here on.
InitStarted ==
    /\ db \in {EmptyDb, setState(EmptyDb, "runner_metrics", <<OldMetrics>>)}
    /\ ready = TRUE
    /\ isRunning = TRUE
    /\ jobs = JobNames
    /\ initialPending = 1
    /\ metrics = loadMetrics(ZeroMetrics, db)
    /\ loaded = loadMetrics(ZeroMetrics, db)
    /\ log = EmptyBag
    /\ act = EmptyBag
    /\ calls = 0
    /\ faults = 0
    /\ agentsIdle

\* The cron jobs of the four agents fire and stop is called; no other request
\* arrives.
NextStarted ==
    \/ stop
    \/ \E j \in Agents : timerFires(j)
    \/ \E r \in Calls, out \in {"ok", "logfail", "fail"}, errOk \in BOOLEAN :
          agentExecuteSettles(r, out, errOk)
    \/ \E r \in Calls, ok \in BOOLEAN : logCriticalSettles(r, ok)
    \/ \E r \in Calls, ok \in BOOLEAN : saveMetricsSettles(r, ok)
    \/ \E r \in Calls, ok \in BOOLEAN : saveHealthSettles(r, ok)
    \/ initialTimeoutFires
    \/ \E r \in Calls, sinceData \in Elapsed, sincePlan \in Elapsed :
          runInitialWorkflow(r, sinceData, sincePlan)
    \/ \E r \in Calls : settled(r)

SpecStarted == InitStarted /\ [][NextStarted]_vars

\* ------------------------------------------------------------ PlannerAgent
\* Instants are minutes of the day; None is undefined, and new Date(undefined)
\* is an Invalid Date. Confidences and efficiencies are in tenths.
conflictThreshold == 7

isValid(t) == t # None

\* date-fns isBefore: false when either date is invalid
isBefore(a, b) == isValid(a) /\ isValid(b) /\ a < b

\* date-fns addHours(date, minutes / 60), as addMilliseconds(date, amount * 3600000)
addHours(date, minutes) == IF isValid(date) THEN date + minutes ELSE None

\* new Date(b) - new Date(a), NaN when either is invalid
duration(a, b) == IF isValid(a) /\ isValid(b) THEN b - a ELSE None

\* Array.prototype.findIndex on startTime, 0 for -1
findIndex(schedule, t) ==
    LET hits == {i \in DOMAIN schedule : schedule[i].startTime = t}
    IN  IF hits = {} THEN 0 ELSE CHOOSE i \in hits : \A j \in hits : i <= j

\* the start is moved, the end is left where it was
movesStartOnly(schedule, resolution) ==
    LET taskIndex == findIndex(schedule, resolution.originalTime)
    IN  IF resolution.resolution = "move_task" /\ taskIndex # 0
        THEN [schedule EXCEPT ![taskIndex].startTime = resolution.newTime]
        ELSE schedule

\* every kind of resolution moves the matching task
movesForEveryKind(schedule, resolution) ==
    LET taskIndex == findIndex(schedule, resolution.originalTime)
        matched == IF taskIndex # 0 THEN taskIndex ELSE Len(schedule)
    IN  IF matched # 0
        THEN [schedule EXCEPT ![matched].startTime = resolution.newTime,
                              ![matched].endTime =
                                  resolution.newTime
                                  + duration(schedule[matched].startTime,
                                             schedule[matched].endTime)]
        ELSE schedule

applyConflictResolution(schedule, resolution) ==
    LET taskIndex == findIndex(schedule, resolution.originalTime)
    IN  IF resolution.resolution = "move_task" /\ taskIndex # 0
        THEN LET task == schedule[taskIndex]
                 originalDuration == duration(task.startTime, task.endTime)
             IN  [schedule EXCEPT ![taskIndex] =
                     [task EXCEPT !.startTime = resolution.newTime,
                                  !.endTime = resolution.newTime + originalDuration]]
        ELSE schedule

\* Array.prototype.sort with a comparator on the keys ws, highest first; the
\* sort is stable
sortDescending(seq, ws) ==
    LET n == Len(seq)
        rank(i) == 1 + Cardinality({j \in 1..n : ws[j] > ws[i] \/ (ws[j] = ws[i] /\ j < i)})
    IN  [k \in 1..n |-> seq[CHOOSE i \in 1..n : rank(i) = k]]

\* priorityWeight[task.priority] || 1
priorityWeight(priority) ==
    CASE priority = "High" -> 3
      [] priority = "Medium" -> 2
      [] OTHER -> 1

\* productiveSlot.start, productiveSlot.end: undefined on an object without it
property(object, name) == IF name \in DOMAIN object THEN object[name] ELSE None

optimizeForProductiveTimeSlots(schedule, productiveSlots) ==
    LET sortedTasks == sortDescending(schedule,
                           [i \in DOMAIN schedule |-> priorityWeight(schedule[i].priority)])
        n == Len(productiveSlots)
    IN  [k \in DOMAIN sortedTasks |->
            IF sortedTasks[k].priority = "High" /\ n > 0
            THEN LET productiveSlot == productiveSlots[((k - 1) % n) + 1]
                 IN  [sortedTasks[k] EXCEPT !.startTime = property(productiveSlot, "start"),
                                            !.endTime = property(productiveSlot, "end")]
            ELSE sortedTasks[k]]

\* efficiencyData[title] || efficiencyData.default || 0.5
efficiency(efficiencyData, title) ==
    IF property(efficiencyData, title) \notin {None, 0}
    THEN efficiencyData[title]
    ELSE IF property(efficiencyData, "default") \notin {None, 0}
    THEN efficiencyData["default"]
    ELSE 5

optimizeTaskOrdering(schedule, efficiencyData) ==
    sortDescending(schedule,
        [i \in DOMAIN schedule |-> efficiency(efficiencyData, schedule[i].title)])

bufferMinutes == 15

RECURSIVE buffered(_, _)
\* addBufferTime's loop: the first i entries of bufferedSchedule
buffered(schedule, i) ==
    IF i = 0 THEN <<>>
    ELSE LET bufferedSchedule == buffered(schedule, i - 1)
             task == schedule[i]
             bufferEndTime == IF i > 1
                              THEN addHours(bufferedSchedule[i - 1].endTime, bufferMinutes)
                              ELSE None
         IN  IF i > 1 /\ isBefore(task.startTime, bufferEndTime)
             THEN Append(bufferedSchedule,
                     [task EXCEPT !.startTime = bufferEndTime,
                                  !.endTime = bufferEndTime
                                              + duration(task.startTime, task.endTime)])
             ELSE Append(bufferedSchedule, task)

addBufferTime(schedule) == buffered(schedule, Len(schedule))

\* optimizePlan's schedule before the buffer pass, lines 197-213.
\* learningData.patterns.productiveTimeSlots and
\* learningData.performance.taskTypeEfficiency: <<>> when undefined, <<v>> else
learnedPasses(schedule, learningData) ==
    LET s1 == IF learningData.productiveTimeSlots # <<>>
              THEN optimizeForProductiveTimeSlots(schedule,
                                                  learningData.productiveTimeSlots[1])
              ELSE schedule
    IN  IF learningData.taskTypeEfficiency # <<>>
        THEN optimizeTaskOrdering(s1, learningData.taskTypeEfficiency[1])
        ELSE s1

\* the buffer pass runs, and is reported, before the learned passes
optimizePlanBufferFirst(resolvedPlan, learningData) ==
    LET s1 == addBufferTime(resolvedPlan.schedule)
        s3 == learnedPasses(s1, learningData)
        o2 == IF learningData.productiveTimeSlots # <<>>
              THEN <<"Added buffer time between tasks",
                     "Applied productive time slot optimization">>
              ELSE <<"Added buffer time between tasks">>
    IN  [schedule |-> s3,
         optimizations |-> IF learningData.taskTypeEfficiency # <<>>
                           THEN Append(o2, "Optimized task ordering based on efficiency patterns")
                           ELSE o2,
         passes |-> <<resolvedPlan.schedule, s1, s1, s3>>]

\* passes: the values of optimizedSchedule at lines 195, 203, 212 and 216
optimizePlan(resolvedPlan, learningData) ==
    LET o1 == IF learningData.productiveTimeSlots # <<>>
              THEN <<"Applied productive time slot optimization">>
              ELSE <<>>
        s1 == learnedPasses(resolvedPlan.schedule,
                            [learningData EXCEPT !.taskTypeEfficiency = <<>>])
        s2 == learnedPasses(resolvedPlan.schedule, learningData)
        o2 == IF learningData.taskTypeEfficiency # <<>>
              THEN Append(o1, "Optimized task ordering based on efficiency patterns")
              ELSE o1
    IN  [schedule |-> addBufferTime(s2),
         optimizations |-> Append(o2, "Added buffer time between tasks"),
         passes |-> <<resolvedPlan.schedule, s1, s2, addBufferTime(s2)>>]

\* confidences of calculatePlanConfidence, in hundredths
baseConfidence == 80
conflictPenalty == 10
optimizationBonus == 5

\* lines 284-297; plan.conflicts?. and plan.optimizations?. give 0 for a plan
\* without the field
calculatePlanConfidence(plan) ==
    LET unresolvedConflicts ==
            IF "conflicts" \in DOMAIN plan
            THEN Cardinality({k \in DOMAIN plan.conflicts : ~plan.conflicts[k].applied})
            ELSE 0
        optimizationCount ==
            IF "optimizations" \in DOMAIN plan THEN Len(plan.optimizations) ELSE 0
        confidence == baseConfidence - unresolvedConflicts * conflictPenalty
                      + optimizationCount * optimizationBonus
    IN  IF confidence > 100 THEN 100 ELSE IF confidence < 0 THEN 0 ELSE confidence

\* ---------------------------------------------------------- the AI oracle
\* A response of model.generateContent: kind "error" (the call rejects),
\* "prose" (text without a JSON object), "broken" (braces that JSON.parse
\* rejects) or "json" (text holding the JSON value).
\* null is <<>>, a value v is <<v>>.
parseConflictResponse(response) ==
    IF response.kind = "json" THEN <<response.value>> ELSE <<>>

analyzeConflict(response) ==
    IF response.kind = "error" THEN <<>> ELSE parseConflictResponse(response)

fallbackPlan(recommendation) ==
    [schedule |-> <<<<>>>>, conflicts_detected |-> <<>>,
     recommendations |-> <<recommendation>>]

\* the fallback is an empty object
emptyFallback(response) ==
    IF response.kind = "json" THEN response.value
    ELSE [schedule |-> <<>>, conflicts_detected |-> <<>>, recommendations |-> <<>>]

parsePlanningResponse(response) ==
    CASE response.kind = "json" -> response.value
      [] response.kind = "prose" -> fallbackPlan("Failed to parse AI response")
      [] OTHER -> fallbackPlan("Error parsing AI response")

\* generateTaskPlan: <<>> stands for its throw of 'Failed to generate AI plan'
generateTaskPlan(response) ==
    IF response.kind = "error" THEN <<>> ELSE <<parsePlanningResponse(response)>>

\* ---------------------------------------------------- PlannerAgent.execute
MaxConflicts == 2    \* conflicts the oracle reports in one plan

\* the runner has been constructed and nothing is scheduled
runnerIdle ==
    /\ ready = FALSE /\ isRunning = FALSE /\ jobs = {} /\ initialPending = 0
    /\ metrics = ZeroMetrics /\ loaded = ZeroMetrics
    /\ act = EmptyBag /\ calls = 0 /\ faults = 0

\* schedule entries as the planning prompt asks for them
taskA == [title |-> "a", priority |-> "High", startTime |-> 540, endTime |-> 600]

taskB == [title |-> "b", priority |-> "Low", startTime |-> 570, endTime |-> 630]

OracleSchedules == {<<>>, <<taskA, taskB>>}

Conflicts == {[type |-> "overlap", tasks |-> "a,b"], [type |-> "weather", tasks |-> "b"]}

ConflictLists == UNION {[1..n -> Conflicts] : n \in 0..MaxConflicts}

\* JSON values the oracle may answer the planning prompt with: the empty
\* object, and plans of the shape asked for
OraclePlans ==
    {[schedule |-> <<>>, conflicts_detected |-> <<>>, recommendations |-> <<>>]}
    \cup {[schedule |-> <<sch>>, conflicts_detected |-> cs, recommendations |-> <<"r">>] :
             sch \in OracleSchedules, cs \in ConflictLists}

\* JSON values the oracle may answer analyzeConflict's prompt with
OracleResolutions ==
    {r \in [resolution : {"move_task", "split_task", "reschedule_event"},
            originalTime : {None, 570}, newTime : {660},
            confidence : {None, conflictThreshold - 1, conflictThreshold,
                          conflictThreshold + 1}] :
        r.resolution # "move_task" => r.originalTime = None}

NoValue == [resolution |-> "none", originalTime |-> None, newTime |-> None,
            confidence |-> None]

\* the responses that hold no JSON value
Failures == {[kind |-> k, value |-> NoValue] : k \in {"error", "prose", "broken"}}

PlanResponses == {[kind |-> "json", value |-> v] : v \in OraclePlans} \cup Failures

ConflictResponses == {[kind |-> "json", value |-> v] : v \in OracleResolutions} \cup Failures

\* getLearningData: patterns and performance as optimizePlan reads them
getLearningData(ld) ==
    [productiveTimeSlots |->
        IF ld.task_patterns = <<>> THEN <<>>
        ELSE <<ld.task_patterns[1].productiveTimeSlots>>,
     taskTypeEfficiency |-> <<>>]

NewPlanning ==
    [pc |-> "idle", dataAge |-> 0, learningData |-> getLearningData(EmptyLearning),
     conflicts |-> <<>>, index |-> 0, updatedSchedule |-> <<>>,
     resolvedConflicts |-> <<>>,
     resolutions |-> <<>>, recommendations |-> <<>>, passes |-> <<>>,
     finalPlan |-> <<>>,
     planResponse |-> "none", error |-> "none"]

\* task_patterns as ReviewerAgent.updateLearningPatterns leaves it
LearnedPatterns == [productiveTimeSlots |-> <<[time |-> "09:00", weight |-> 1]>>]

InitPlanner ==
    /\ runnerIdle
    /\ executorIdle
    /\ db \in {EmptyDb, agentWrites("collector", EmptyDb)}
    /\ log = EmptyBag
    /\ planning \in {[NewPlanning EXCEPT !.dataAge = m] :
                        m \in {DataFreshMinutes - 1, DataFreshMinutes}}
    /\ conflict_resolutions = <<>>
    /\ learning_data \in {EmptyLearning,
                          [EmptyLearning EXCEPT !.task_patterns = <<LearnedPatterns>>]}
    /\ freshness = NoQuery
    /\ reviewing = NoReviews

\* execute's throw lands in its catch block
throws(pl, message) == [pl EXCEPT !.pc = "catch", !.error = message]

\* execute up to its await of aiService.generateTaskPlan, lines 12-35
plannerExecute ==
    /\ planning.pc = "idle"
    /\ planning' = IF db.latest_collected_data = None
                   THEN throws(planning, "No data available from CollectorAgent")
                   ELSE [planning EXCEPT !.pc = "generate",
                                         !.learningData = getLearningData(learning_data)]
    /\ UNCHANGED <<runnerVars, executorVars, db, log, conflict_resolutions, learning_data, freshness,
                   reviewing>>

\* generateTaskPlan settles (planning.planResponse keeps the kind of the
\* oracle's response); resolveConflicts runs up to its first await,
\* lines 29-38 and 110-113
planGenerated(response) ==
    LET aiPlan == generateTaskPlan(response)
        answered == [planning EXCEPT !.planResponse = response.kind]
    IN  /\ planning.pc = "generate"
        /\ planning' =
             IF aiPlan = <<>> THEN throws(answered, "Failed to generate AI plan")
             ELSE IF aiPlan[1].schedule = <<>>
             THEN throws(answered, "aiPlan.schedule is not iterable")
             ELSE [answered EXCEPT !.pc = "resolve",
                                   !.conflicts = aiPlan[1].conflicts_detected,
                                   !.updatedSchedule = aiPlan[1].schedule[1],
                                   !.recommendations = aiPlan[1].recommendations]
        /\ UNCHANGED <<runnerVars, executorVars, db, log, conflict_resolutions, learning_data,
                       freshness, reviewing>>

\* resolution && resolution.confidence >= this.conflictThreshold
confidentAtThreshold(resolution) ==
    resolution # <<>> /\ resolution[1].confidence >= conflictThreshold

\* resolution && resolution.confidence > this.conflictThreshold
confident(resolution) ==
    resolution # <<>> /\ resolution[1].confidence > conflictThreshold

\* the unresolved conflict is not pushed
unresolvedDropped(resolvedConflicts, conflict) == resolvedConflicts

\* resolveConflicts' else branch, lines 146-152
pushUnresolved(resolvedConflicts, conflict) ==
    Append(resolvedConflicts,
           [originalConflict |-> conflict, resolution |-> <<>>, applied |-> FALSE])

\* lines 137-141
pushApplied(resolvedConflicts, conflict, resolution) ==
    Append(resolvedConflicts,
           [originalConflict |-> conflict, resolution |-> resolution, applied |-> TRUE])

\* INSERT INTO conflict_resolutions
saveConflictResolution(rows, conflict, resolution) ==
    Append(rows, [task_id |-> conflict.tasks, conflict_type |-> conflict.type,
                  resolved_time |-> resolution.newTime])

\* One turn of resolveConflicts' loop, lines 114-153: analyzeConflict settles
\* with the oracle's response (planning.resolutions keeps what it returned); saved is the outcome of the insert into
\* conflict_resolutions, which rejects into execute's catch.
conflictAnalyzed(response, saved) ==
    LET conflict == planning.conflicts[planning.index + 1]
        resolution == analyzeConflict(response)
        asked == [planning EXCEPT !.index = @ + 1,
                                  !.resolutions = Append(@, resolution)]
    IN  /\ planning.pc = "resolve"
        /\ planning.index < Len(planning.conflicts)
        /\ IF confident(resolution)
           THEN LET moved == [asked EXCEPT !.updatedSchedule =
                                 applyConflictResolution(@, resolution[1])]
                IN  IF saved
                    THEN /\ conflict_resolutions' =
                              saveConflictResolution(conflict_resolutions, conflict,
                                                     resolution[1])
                         /\ planning' = [moved EXCEPT !.resolvedConflicts =
                                            pushApplied(@, conflict, resolution)]
                    ELSE /\ planning' = throws(moved, "SQLITE_ERROR")
                         /\ UNCHANGED conflict_resolutions
           ELSE /\ saved
                /\ planning' = [asked EXCEPT !.resolvedConflicts =
                                   pushUnresolved(@, conflict)]
                /\ UNCHANGED conflict_resolutions
        /\ UNCHANGED <<runnerVars, executorVars, db, log, learning_data, freshness, reviewing>>

\* resolveConflicts returns; optimizePlan and the assembly of finalPlan,
\* lines 40-54
planOptimized ==
    LET optimizedPlan == optimizePlan([schedule |-> planning.updatedSchedule],
                                      planning.learningData)
        finalPlan == [schedule |-> optimizedPlan.schedule,
                      conflicts |-> planning.resolvedConflicts,
                      optimizations |-> optimizedPlan.optimizations,
                      recommendations |-> planning.recommendations,
                      planningConfidence |-> calculatePlanConfidence(optimizedPlan)]
    IN  /\ planning.pc = "resolve"
        /\ planning.index = Len(planning.conflicts)
        /\ planning' = [planning EXCEPT !.pc = "store", !.passes = optimizedPlan.passes,
                                        !.finalPlan = <<finalPlan>>]
        /\ UNCHANGED <<runnerVars, executorVars, db, log, conflict_resolutions, learning_data,
                       freshness, reviewing>>

\* The two setState calls and the 'success' record, lines 57-66. failAt is
\* the write that rejects (0: none); db holds Stored for the plan written,
\* which is planning.finalPlan.
planStored(failAt) ==
    /\ planning.pc = "store"
    /\ db' = CASE failAt = 1 -> db
               [] failAt = 2 -> setState(db, "latest_plan", Stored)
               [] OTHER -> agentWrites("planner", db)
    /\ log' = IF failAt = 0 THEN logAgentExecution(log, agentClassName("planner"), "success")
              ELSE log
    /\ planning' = IF failAt = 0 THEN [planning EXCEPT !.pc = "returned"]
                   ELSE throws(planning, "SQLITE_ERROR")
    /\ UNCHANGED <<runnerVars, executorVars, conflict_resolutions, learning_data, freshness, reviewing>>

\* execute's catch, lines 68-73: the 'error' record, then the rethrow
errorLogged(ok) ==
    /\ planning.pc = "catch"
    /\ log' = IF ok THEN logAgentExecution(log, agentClassName("planner"), "error")
              ELSE log
    /\ planning' = [planning EXCEPT !.pc = "threw"]
    /\ UNCHANGED <<runnerVars, executorVars, db, conflict_resolutions, learning_data, freshness, reviewing>>

NextPlanner ==
    \/ plannerExecute
    \/ \E response \in PlanResponses : planGenerated(response)
    \/ \E response \in ConflictResponses, saved \in BOOLEAN :
          conflictAnalyzed(response, saved)
    \/ planOptimized
    \/ \E failAt \in 0..3 : planStored(failAt)
    \/ \E ok \in BOOLEAN : errorLogged(ok)

SpecPlanner == InitPlanner /\ [][NextPlanner]_vars

\* ------------------------------------------------------------- the claims
RECURSIVE copies(_)
\* how many calls of the bag act are in the set S of its records
copies(S) ==
    IF S = {} THEN 0
    ELSE LET r == CHOOSE x \in S : TRUE
         IN  CopiesIn(r, act) + copies(S \ {r})

\* the executions of phase j that are in flight
inFlight(j) ==
    IF j = "fullWorkflow"
    THEN copies({r \in Calls : r.kind = "workflow" /\ r.pc # "done"})
    ELSE copies({r \in Calls : inRun(r) /\ r.agent = j})

\* C1: at most one execution of each phase (collector, planner, executor,
\* reviewer, fullWorkflow) is in flight at any time.
C1_SingleFlight == \A j \in JobNames : inFlight(j) <= 1

\* C2: in a run of the combined workflow the planner phase runs only after
\* the collector phase has completed, the executor phase only after the
\* planner phase has completed, and no phase completes before the one
\* ahead of it.
C2_PhaseOrder ==
    \A r \in Calls : r.kind = "workflow" =>
        /\ inRun(r) /\ r.agent = "collector" =>
              r.coll = "unset" /\ r.plan = "unset" /\ r.exec = "unset"
        /\ inRun(r) /\ r.agent = "planner" =>
              r.coll # "unset" /\ r.plan = "unset" /\ r.exec = "unset"
        /\ inRun(r) /\ r.agent = "executor" =>
              r.coll # "unset" /\ r.plan # "unset" /\ r.exec = "unset"
        /\ r.plan # "unset" => r.coll # "unset"
        /\ r.exec # "unset" => r.plan # "unset"

C2_Witness ==
    \E r \in Calls : r.kind = "workflow" /\ r.agent = "executor" /\ r.pc = "executing"

\* C3: a workflow whose collector phase failed runs neither the planner nor
\* the executor, one whose planner phase failed does not run the executor,
\* and neither records FULL_WORKFLOW success.
C3_FatalPhases ==
    \A r \in Calls : r.kind = "workflow" =>
        /\ r.coll \in {"null", "threw"} =>
              /\ r.agent = "collector" /\ r.plan = "unset" /\ r.exec = "unset"
              /\ r.logged # "success" /\ r.pc # "wf_log_success"
        /\ r.plan \in {"null", "threw"} =>
              /\ r.agent = "planner" /\ r.exec = "unset"
              /\ r.logged # "success" /\ r.pc # "wf_log_success"

C3_Witness ==
    \E r \in Calls :
        /\ r.kind = "workflow" /\ r.pc = "done"
        /\ r.coll = "ok" /\ r.plan = "null" /\ r.logged = "failed"

\* C4: a workflow whose collector and planner phases succeeded and whose
\* executor phase failed has, when it is over, recorded FULL_WORKFLOW success.
C4_ExecutorFailureTolerated ==
    \A r \in Calls :
        ( /\ r.kind = "workflow" /\ r.pc = "done"
          /\ r.coll = "ok" /\ r.plan = "ok" /\ r.exec \in {"null", "threw"} )
        => r.logged = "success"

\* C5: no call of runAgent or runFullWorkflow ends by throwing.
C5_NoEscape ==
    \A r \in Calls : r.kind \in {"agent", "workflow"} => r.ret # "threw"

\* stop has returned and start has not been called since
stopped == ~isRunning /\ \A r \in Calls : r.kind # "stop"

timerCallBegins ==
    \E r \in BagToSet(act') : r.origin = "timer" /\ CopiesIn(r, act') > CopiesIn(r, act)

\* C6: once stop has returned, no timer set by start fires any more.
C6_NoTimerAfterStop == [][stopped => ~timerCallBegins]_vars

\* C7: when stop returns, the stored runner_metrics are the counters in
\* memory and the stored system_health says isRunning = false, 0 active jobs.
C7_StopPersistsFinalMetrics ==
    \A r \in Calls :
        (r.kind = "stop" /\ r.pc = "done" /\ r.ret = "void") =>
            /\ db.runner_metrics = <<metrics>>
            /\ db.system_health # <<>>
            /\ db.system_health[1].isRunning = FALSE
            /\ db.system_health[1].activeJobs = 0

TimersAtomic ==
    \/ isRunning /\ jobs = JobNames
    \/ ~isRunning /\ jobs = {}

startCalled ==
    \E r \in BagToSet(act') : r.kind = "start" /\ CopiesIn(r, act') > CopiesIn(r, act)

\* C8: in every state either isRunning holds and the five timers are
\* registered, or it does not and none is; a start while running changes
\* no timer and schedules no second start-up workflow.
C8_StartStopAtomic ==
    /\ []TimersAtomic
    /\ [][isRunning /\ startCalled =>
            UNCHANGED <<isRunning, jobs, initialPending>>]_vars

C8_Witness ==
    /\ isRunning /\ jobs = JobNames /\ initialPending = 1
    /\ \E r \in Calls : r.kind = "start" /\ r.ret = "already"

\* C9: relative to the counters loaded at initialization, totalRuns is
\* successfulRuns plus errors plus the runs that are not yet counted as one
\* or the other.
C9_CountersBalance ==
    metrics.totalRuns - loaded.totalRuns =
        (metrics.successfulRuns - loaded.successfulRuns)
        + (metrics.errors - loaded.errors)
        + copies({r \in Calls : r.pc = "executing"})

\* the rows of agent_logs written for phase runs
phaseRecords ==
    LET rows == {x \in BagToSet(log) : x.agent # "FULL_WORKFLOW"}
    IN  BagCardinality([x \in rows |-> log[x]])

RecordsPerRun ==
    \A r \in Calls : r.res # "none" =>
        /\ r.res = "ok" => r.recs = 1 /\ ~r.appFail
        /\ r.res # "ok" /\ ~r.appFail => r.recs = 2
        /\ r.recs <= 2

C11_StatusSet ==
    \A x \in BagToSet(log) : x.status \in {"success", "error", "critical_error"}

\* C39: stop aborts no run in flight, and once stop has returned and the runs
\* that were in flight have finished, the last of them a run fired by a cron
\* timer, with no store write failed, the stored runner_metrics are the
\* counters in memory.
C39_NoRunMissing ==
    (/\ stopped
     /\ faults = 0
     /\ \A r \in Calls : r.pc = "done"
     /\ \E r \in Calls : r.kind = "agent" /\ r.origin = "timer") =>
        db.runner_metrics = <<metrics>>

\* ------------------------------------------------------------ optimizePlan
MaxTasks == 2        \* entries of a schedule handed to optimizePlan

Tasks ==
    {[title |-> t, priority |-> p, startTime |-> b, endTime |-> b + d] :
        t \in {"a", "b"}, p \in {"High", "Low"}, b \in {540, 570, 600}, d \in {30, 60}}

Schedules == UNION {[1..n -> Tasks] : n \in 0..MaxTasks}

\* learned data: none; no slot and the slots ReviewerAgent stores; slots with the start
\* and end optimizeForProductiveTimeSlots reads; efficiencies by title
LearningDatas ==
    [productiveTimeSlots :
        {<<>>, <<<<>>>>, <<LearnedPatterns.productiveTimeSlots>>,
         <<<<[start |-> 540, end |-> 600], [start |-> 840, end |-> 900]>>>>},
     taskTypeEfficiency : {<<>>, <<[a |-> 0, b |-> 3]>>}]

\* execute is about to call optimizePlan on any schedule and learned data
InitOptimize ==
    /\ runnerIdle
    /\ executorIdle
    /\ db = agentWrites("collector", EmptyDb)
    /\ log = EmptyBag
    /\ planning \in {[NewPlanning EXCEPT !.pc = "resolve", !.updatedSchedule = sch,
                                        !.learningData = ld] :
                        sch \in Schedules, ld \in LearningDatas}
    /\ conflict_resolutions = <<>>
    /\ learning_data = EmptyLearning
    /\ freshness = NoQuery
    /\ reviewing = NoReviews

NextOptimize == planOptimized

SpecOptimize == InitOptimize /\ [][NextOptimize]_vars

\* -------------------------------------------------------- resolveConflicts
\* execute is about to call resolveConflicts on any schedule with one or two
\* detected conflicts
InitResolve ==
    /\ runnerIdle
    /\ executorIdle
    /\ db = agentWrites("collector", EmptyDb)
    /\ log = EmptyBag
    /\ planning \in {[NewPlanning EXCEPT !.pc = "resolve", !.updatedSchedule = sch,
                                        !.conflicts = cs] :
                        sch \in Schedules,
                        cs \in {<<[type |-> "overlap", tasks |-> "a,b"]>>,
                                <<[type |-> "overlap", tasks |-> "a,b"],
                                  [type |-> "weather", tasks |-> "b"]>>}}
    /\ conflict_resolutions = <<>>
    /\ learning_data = EmptyLearning
    /\ freshness = NoQuery
    /\ reviewing = NoReviews

NextResolve ==
    \E response \in ConflictResponses, saved \in BOOLEAN :
        conflictAnalyzed(response, saved)

SpecResolve == InitResolve /\ [][NextResolve]_vars

\* -------------------------------------------------- isDataFresh, isPlanFresh
MaxElapsed == 121    \* minutes between a stored instant and now

\* the store before any run, after a collector run, after a planner run
InitFresh ==
    /\ runnerIdle
    /\ executorIdle
    /\ db \in {EmptyDb, agentWrites("collector", EmptyDb),
               agentWrites("planner", agentWrites("collector", EmptyDb))}
    /\ log = EmptyBag
    /\ planning = NoPlanning
    /\ conflict_resolutions = <<>>
    /\ learning_data = EmptyLearning
    /\ freshness = NoQuery
    /\ reviewing = NoReviews

\* CollectorAgent.isDataFresh() is called diffMinutes after the last collection
isDataFreshCalled(diffMinutes) ==
    /\ freshness.pc = "idle"
    /\ freshness' = [pc |-> "answered", of |-> "data", diffMinutes |-> diffMinutes,
                     result |-> isDataFresh(db, diffMinutes)]
    /\ UNCHANGED <<runnerVars, executorVars, db, log, planning, conflict_resolutions, learning_data,
                   reviewing>>

\* PlannerAgent.isPlanFresh() is called diffMinutes after the last planning
isPlanFreshCalled(diffMinutes) ==
    /\ freshness.pc = "idle"
    /\ freshness' = [pc |-> "answered", of |-> "plan", diffMinutes |-> diffMinutes,
                     result |-> isPlanFresh(db, diffMinutes)]
    /\ UNCHANGED <<runnerVars, executorVars, db, log, planning, conflict_resolutions, learning_data,
                   reviewing>>

NextFresh ==
    \/ \E diffMinutes \in 0..MaxElapsed : isDataFreshCalled(diffMinutes)
    \/ \E diffMinutes \in 0..MaxElapsed : isPlanFreshCalled(diffMinutes)

SpecFresh == InitFresh /\ [][NextFresh]_vars

\* ------------------------------------------------ JavaScript number arithmetic
\* A number is an IEEE 754 double: [m |-> mantissa, e |-> exponent] stands for
\* m * 2^e, where m is 0 (with e = 0) or has exactly 53 bits. A mantissa is a
\* natural number written in Limbs limbs of LimbBits bits, lowest limb first.
\* Results are rounded to nearest, ties to even. Only finite numbers >= 0
\* occur; JSON.stringify and JSON.parse give back the same double.
LimbBits == 13
Limbs == 10
Precision == 53

Base == 2 ^ LimbBits

RECURSIVE carried(_, _, _)
\* the limbs of the natural number with the unnormalised limbs raw
carried(raw, i, carry) ==
    IF i > Limbs THEN <<>>
    ELSE <<(raw[i] + carry) % Base>> \o carried(raw, i + 1, (raw[i] + carry) \div Base)

natural(n) == carried([i \in 1..Limbs |-> IF i = 1 THEN n ELSE 0], 1, 0)

sum(a, b) == carried([i \in 1..Limbs |-> a[i] + b[i]], 1, 0)

RECURSIVE column(_, _, _, _)
column(a, b, k, i) ==
    IF i > k THEN 0 ELSE a[i] * b[k + 1 - i] + column(a, b, k, i + 1)

product(a, b) == carried([k \in 1..Limbs |-> column(a, b, k, 1)], 1, 0)

\* a * 2^n
shiftLeft(a, n) ==
    LET q == n \div LimbBits
        r == n % LimbBits
    IN  carried([i \in 1..Limbs |-> IF i > q THEN a[i - q] * 2 ^ r ELSE 0], 1, 0)

\* floor(a / 2^n)
shiftRight(a, n) ==
    LET q == n \div LimbBits
        r == n % LimbBits
        limb(i) == IF i <= Limbs THEN a[i] ELSE 0
    IN  [i \in 1..Limbs |->
            (limb(i + q) \div 2 ^ r) + (limb(i + q + 1) % 2 ^ r) * 2 ^ (LimbBits - r)]

RECURSIVE width(_)
width(n) == IF n = 0 THEN 0 ELSE 1 + width(n \div 2)

bitLength(a) ==
    LET used == {i \in 1..Limbs : a[i] # 0}
        top == CHOOSE i \in used : \A j \in used : j <= i
    IN  IF used = {} THEN 0 ELSE (top - 1) * LimbBits + width(a[top])

bit(a, k) == (a[(k \div LimbBits) + 1] \div 2 ^ (k % LimbBits)) % 2

RECURSIVE quotient(_, _, _, _)
\* long division of a by the small number t, from limb i down: the limbs of
\* the quotient from limb i down, highest first, followed by the remainder
quotient(a, t, i, rem) ==
    IF i = 0 THEN <<rem>>
    ELSE <<(rem * Base + a[i]) \div t>> \o quotient(a, t, i - 1, (rem * Base + a[i]) % t)

Zero == [m |-> natural(0), e |-> 0]

\* the double nearest to p * 2^e (plus a positive amount below 2^e when
\* inexact), ties to even
rounded(p, e, inexact) ==
    LET len == bitLength(p)
        s == len - Precision
        q == shiftRight(p, s)
        half == bit(p, s - 1) = 1
        rest == inexact \/ shiftLeft(shiftRight(p, s - 1), s - 1) # p
        up == half /\ (rest \/ q[1] % 2 = 1)
        m == IF up THEN sum(q, natural(1)) ELSE q
    IN  IF len = 0 THEN Zero
        ELSE IF len <= Precision
        THEN [m |-> shiftLeft(p, Precision - len), e |-> e - (Precision - len)]
        ELSE IF bitLength(m) > Precision
        THEN [m |-> shiftRight(m, 1), e |-> e + s + 1]
        ELSE [m |-> m, e |-> e + s]

\* x * y
times(x, y) == rounded(product(x.m, y.m), x.e + y.e, FALSE)

\* x + y
plus(x, y) ==
    LET e == IF x.e < y.e THEN x.e ELSE y.e
    IN  IF x = Zero THEN y
        ELSE IF y = Zero THEN x
        ELSE IF x.e - y.e > Precision + 2 THEN x
        ELSE IF y.e - x.e > Precision + 2 THEN y
        ELSE rounded(sum(shiftLeft(x.m, x.e - e), shiftLeft(y.m, y.e - e)), e, FALSE)

\* c / t for whole numbers 0 <= c and 0 < t < 2^17
dividedBy(c, t) ==
    LET k == 6 * LimbBits
        qr == quotient(shiftLeft(natural(c), k), t, Limbs, 0)
    IN  rounded([i \in 1..Limbs |-> qr[Limbs + 1 - i]], 0 - k, qr[Limbs + 1] # 0)

RECURSIVE below(_, _, _)
\* a < b for naturals, comparing from limb i down
below(a, b, i) ==
    IF i = 0 THEN FALSE
    ELSE IF a[i] # b[i] THEN a[i] < b[i]
    ELSE below(a, b, i - 1)

\* x < y
lessThan(x, y) ==
    IF x = Zero THEN y # Zero
    ELSE IF y = Zero THEN FALSE
    ELSE IF x.e # y.e THEN x.e < y.e
    ELSE below(x.m, y.m, Limbs)

\* --------------------------------------- ReviewerAgent.adaptUserPreferences
minDailyTasks == 3
maxDailyTasksLimit == 12
defaultDailyTasks == 8
lowCompletion == dividedBy(7, 10)     \* 0.7
highCompletion == dividedBy(9, 10)    \* 0.9

\* {}: no preference stored; None and <<>> are undefined fields
NoPrefs ==
    [maxDailyTasks |-> None, peakProductivityHours |-> <<>>,
     preferredTaskDuration |-> None, lastAdapted |-> FALSE]

\* analyzeTimeUsage: the top productive hours and the average duration in
\* minutes of the completed tasks that have a duration; none, or both
NoTimeUsage == [productiveHours |-> <<>>, averageDuration |-> 0]

TimeUsages ==
    {NoTimeUsage}
    \cup [productiveHours : {<<"9:00-10:00">>, <<"14:00-15:00", "9:00-10:00">>},
          averageDuration : {30, 45}]

\* a period without tasks has the completion rate 1
completionRateFullWhenEmpty(completedTasks, missedTasks) ==
    IF Len(completedTasks) + Len(missedTasks) = 0 THEN dividedBy(1, 1)
    ELSE dividedBy(Len(completedTasks), Len(completedTasks) + Len(missedTasks))

\* completedTasks.length / (completedTasks.length + missedTasks.length) || 0
completionRate(completedTasks, missedTasks) ==
    IF Len(completedTasks) + Len(missedTasks) = 0 THEN Zero
    ELSE dividedBy(Len(completedTasks), Len(completedTasks) + Len(missedTasks))

\* the record analyzeYesterdayPerformance returns; a task is its priority
performance(completedTasks, missedTasks, timeUsage) ==
    [completedTasks |-> completedTasks, missedTasks |-> missedTasks,
     productiveHours |-> timeUsage.productiveHours,
     averageDuration |-> timeUsage.averageDuration,
     completionRate |-> completionRate(completedTasks, missedTasks)]

\* numbers of completed and missed tasks of a period
Periods == {<<0, 0>>, <<0, 1>>, <<2, 1>>, <<7, 3>>, <<6, 2>>, <<9, 1>>, <<10, 1>>,
            <<1, 0>>}

\* the performance records of those periods; only a completed task has a
\* duration
PerformanceDatas ==
    UNION {{performance([i \in 1..n[1] |-> "High"], [i \in 1..n[2] |-> "Low"], u) :
               u \in IF n[1] > 0 THEN TimeUsages ELSE {NoTimeUsage}} :
           n \in Periods}

\* the stored value changes on every low or high completion rate, unclamped
maxDailyTasksUnclamped(currentPrefs, rate) ==
    IF lessThan(rate, lowCompletion)
    THEN <<currentPrefs.maxDailyTasks - 1>>
    ELSE IF lessThan(highCompletion, rate)
         THEN <<currentPrefs.maxDailyTasks + 1>>
         ELSE <<>>

\* adaptations.maxDailyTasks: <<>> when the key is not set. A comparison of
\* undefined with a number is false.
maxDailyTasksAdaptation(currentPrefs, rate) ==
    IF /\ lessThan(rate, lowCompletion)
       /\ currentPrefs.maxDailyTasks # None
       /\ currentPrefs.maxDailyTasks > minDailyTasks
    THEN <<IF currentPrefs.maxDailyTasks - 1 > minDailyTasks
           THEN currentPrefs.maxDailyTasks - 1 ELSE minDailyTasks>>
    ELSE IF /\ lessThan(highCompletion, rate)
            /\ currentPrefs.maxDailyTasks # None
            /\ currentPrefs.maxDailyTasks < maxDailyTasksLimit
         THEN <<IF (IF currentPrefs.maxDailyTasks = 0 THEN defaultDailyTasks
                    ELSE currentPrefs.maxDailyTasks) + 1 < maxDailyTasksLimit
                THEN (IF currentPrefs.maxDailyTasks = 0 THEN defaultDailyTasks
                      ELSE currentPrefs.maxDailyTasks) + 1
                ELSE maxDailyTasksLimit>>
         ELSE <<>>

\* {...currentPrefs, ...adaptations, lastAdapted}, or <<>> when nothing adapts
adaptedPreferences(currentPrefs, performanceData) ==
    LET hours == performanceData.productiveHours
        average == performanceData.averageDuration
        tasks == maxDailyTasksAdaptation(currentPrefs, performanceData.completionRate)
    IN  IF Len(hours) = 0 /\ ~(average > 0) /\ tasks = <<>>
        THEN <<>>
        ELSE <<[maxDailyTasks |-> IF tasks = <<>> THEN currentPrefs.maxDailyTasks
                                  ELSE tasks[1],
                peakProductivityHours |-> IF Len(hours) > 0 THEN hours
                                          ELSE currentPrefs.peakProductivityHours,
                preferredTaskDuration |-> IF average > 0 THEN average
                                          ELSE currentPrefs.preferredTaskDuration,
                lastAdapted |-> TRUE]>>

\* INSERT OR REPLACE of one category; the write can fail
saveLearningData(ld, category, data, ok) ==
    IF ok THEN [ld EXCEPT ![category] = <<data>>] ELSE ld

\* no call of adaptUserPreferences yet
NoAdaptation ==
    [pc |-> "idle", performanceData |-> performance(<<>>, <<>>, NoTimeUsage),
     currentPrefs |-> NoPrefs, saved |-> FALSE]

\* nothing stored, or a stored preference with maxDailyTasks in its range
InitAdapt ==
    /\ runnerIdle
    /\ executorIdle
    /\ db = EmptyDb
    /\ log = EmptyBag
    /\ planning = NoPlanning
    /\ conflict_resolutions = <<>>
    /\ freshness = NoQuery
    /\ reviewing = NoAdaptation
    /\ \E prefs \in {<<>>} \cup
                    {<<[NoPrefs EXCEPT !.maxDailyTasks = n]>> :
                        n \in minDailyTasks..maxDailyTasksLimit} :
          learning_data = [EmptyLearning EXCEPT !.user_preferences = prefs]

\* One call, lines 341-372. reviewing keeps the call: its argument, the
\* preferences it read, and whether its store write, if any, went through.
adaptUserPreferences(performanceData, ok) ==
    LET stored == learning_data.user_preferences
        currentPrefs == IF stored = <<>> THEN NoPrefs ELSE stored[1]
        adapted == adaptedPreferences(currentPrefs, performanceData)
    IN  /\ learning_data' =
              IF adapted = <<>> THEN learning_data
              ELSE saveLearningData(learning_data, "user_preferences", adapted[1], ok)
        /\ reviewing' = [pc |-> "adapted", performanceData |-> performanceData,
                         currentPrefs |-> currentPrefs, saved |-> ok]
        /\ UNCHANGED <<runnerVars, executorVars, db, log, planning, conflict_resolutions, freshness>>

NextAdapt ==
    \E performanceData \in PerformanceDatas, ok \in BOOLEAN :
        adaptUserPreferences(performanceData, ok)

SpecAdapt == InitAdapt /\ [][NextAdapt]_vars

\* ------------------------------------- ReviewerAgent.updateLearningPatterns
Priorities == {"High", "Medium", "Low"}

maxSlots == 5

historyWeight == dividedBy(7, 10)    \* 0.7

periodWeight == dividedBy(3, 10)     \* 0.3

\* the position of the key time in the Map, 0 when it is not a key
indexOf(slotMap, time) ==
    LET hits == {k \in DOMAIN slotMap : slotMap[k].time = time}
    IN  IF hits = {} THEN 0 ELSE CHOOSE k \in hits : TRUE

\* Map.prototype.set: a new key goes last, an old key keeps its position
setSlot(slotMap, slot) ==
    IF indexOf(slotMap, slot.time) = 0 THEN Append(slotMap, slot)
    ELSE [slotMap EXCEPT ![indexOf(slotMap, slot.time)] = slot]

RECURSIVE currentSlots(_, _)
\* the Map after the first i entries of current, lines 269-271
currentSlots(current, i) ==
    IF i = 0 THEN <<>>
    ELSE setSlot(currentSlots(current, i - 1),
                 [time |-> current[i].time,
                  weight |-> IF current[i].weight = 0 THEN 1 ELSE current[i].weight])

RECURSIVE observed(_, _, _)
\* the Map after the first i entries of newSlots, lines 274-280
observed(slotMap, newSlots, i) ==
    IF i = 0 THEN slotMap
    ELSE LET before == observed(slotMap, newSlots, i - 1)
             k == indexOf(before, newSlots[i])
         IN  IF k # 0 THEN [before EXCEPT ![k].weight = @ + 1]
             ELSE Append(before, [time |-> newSlots[i], weight |-> 1])

\* a slot seen again keeps its weight
slotsKeepWeight(current, newSlots) ==
    LET fresh == SelectSeq(newSlots, LAMBDA t : indexOf(current, t) = 0)
        slotMap == observed(currentSlots(current, Len(current)), fresh, Len(fresh))
        sorted == sortDescending(slotMap, [k \in DOMAIN slotMap |-> slotMap[k].weight])
    IN  SubSeq(sorted, 1, IF Len(sorted) < maxSlots THEN Len(sorted) ELSE maxSlots)

\* every slot is kept
slotsUntruncated(current, newSlots) ==
    LET slotMap == observed(currentSlots(current, Len(current)), newSlots, Len(newSlots))
    IN  sortDescending(slotMap, [k \in DOMAIN slotMap |-> slotMap[k].weight])

\* the five slots at the end of the sorted list are kept
slotsLastFive(current, newSlots) ==
    LET slotMap == observed(currentSlots(current, Len(current)), newSlots, Len(newSlots))
        sorted == sortDescending(slotMap, [k \in DOMAIN slotMap |-> slotMap[k].weight])
    IN  SubSeq(sorted, IF Len(sorted) < maxSlots THEN 1 ELSE Len(sorted) - maxSlots + 1,
               Len(sorted))

updateProductiveTimeSlots(current, newSlots) ==
    LET slotMap == observed(currentSlots(current, Len(current)), newSlots, Len(newSlots))
        sorted == sortDescending(slotMap, [k \in DOMAIN slotMap |-> slotMap[k].weight])
    IN  SubSeq(sorted, 1, IF Len(sorted) < maxSlots THEN Len(sorted) ELSE maxSlots)

\* the number of tasks of a priority
numberOf(tasks, priority) == Cardinality({k \in DOMAIN tasks : tasks[k] = priority})

\* a rate per priority: <<>> without a stored value, <<rate>> with one
NoRates == [priority \in Priorities |-> <<>>]

\* (updated[priority] * 0.7) + (newRate * 0.3)
blended(previous, newRate) ==
    plus(times(previous, historyWeight), times(newRate, periodWeight))

\* if (updated[priority]): a stored rate other than 0
isTruthy(rate) == rate # <<>> /\ rate[1] # Zero

updateCompletionRates(current, performanceData) ==
    [priority \in Priorities |->
        LET completed == numberOf(performanceData.completedTasks, priority)
            total == completed + numberOf(performanceData.missedTasks, priority)
        IN  IF total = 0 THEN current[priority]
            ELSE IF isTruthy(current[priority])
            THEN <<blended(current[priority][1], dividedBy(completed, total))>>
            ELSE <<dividedBy(completed, total)>>]

NoEffectiveness == [priority \in Priorities |-> <<>>]

RECURSIVE counted(_, _)
\* the entry of a priority after k more of its completed tasks, lines 332-335.
\* completionRate is 0 at count 0 and then (1 * (count - 1) + 1) / count,
\* a whole number, so the division is exact
counted(entry, k) ==
    IF k = 0 THEN entry
    ELSE LET e == counted(entry, k - 1)
         IN  [e EXCEPT !.count = e.count + 1,
                       !.completionRate =
                           (e.completionRate * ((e.count + 1) - 1) + 1) \div (e.count + 1)]

\* a missed task counts as a completed one
effectivenessOfEveryTask(current, performanceData) ==
    [priority \in Priorities |->
        LET k == numberOf(performanceData.completedTasks, priority)
                 + numberOf(performanceData.missedTasks, priority)
        IN  IF k = 0 THEN current[priority]
            ELSE <<counted(IF current[priority] = <<>>
                           THEN [completionRate |-> 0, avgDelay |-> 0, count |-> 0]
                           ELSE current[priority][1], k)>>]

updatePriorityEffectiveness(current, performanceData) ==
    [priority \in Priorities |->
        LET k == numberOf(performanceData.completedTasks, priority)
        IN  IF k = 0 THEN current[priority]
            ELSE <<counted(IF current[priority] = <<>>
                           THEN [completionRate |-> 0, avgDelay |-> 0, count |-> 0]
                           ELSE current[priority][1], k)>>]

\* {}: the defaults updateLearningPatterns works from without a stored row
NoPatterns == [productiveTimeSlots |-> <<>>, taskCompletionRates |-> NoRates,
               priorityEffectiveness |-> NoEffectiveness]

\* updatedPatterns, lines 226-240
updatedPatterns(currentPatterns, performanceData) ==
    [productiveTimeSlots |->
        updateProductiveTimeSlots(currentPatterns.productiveTimeSlots,
                                  performanceData.productiveHours),
     taskCompletionRates |->
        updateCompletionRates(currentPatterns.taskCompletionRates, performanceData),
     priorityEffectiveness |->
        updatePriorityEffectiveness(currentPatterns.priorityEffectiveness,
                                    performanceData)]

\* updatedInsights, lines 248-255: the efficiency score stands for all fields
updatedInsights(currentInsights, aiInsights) ==
    [lastEfficiencyScore |-> aiInsights.efficiency_score]

\* getLearningData(category) || {}
storedOr(ld, category, default) ==
    IF ld[category] = <<>> THEN default ELSE ld[category][1]

\* ---------------------------------------------------- ReviewerAgent.execute
MaxReviews == 2      \* calls of ReviewerAgent.execute; runAgent lets them overlap

\* yesterday's tasks as the two Notion queries return them
ReviewPerformances ==
    {performance(<<>>, <<>>, NoTimeUsage),
     performance(<<"High">>, <<>>, NoTimeUsage),
     performance(<<"High", "High", "High">>, <<"High">>, NoTimeUsage),
     performance(<<"High">>, <<"Low">>,
                 [productiveHours |-> <<"9:00-10:00">>, averageDuration |-> 60]),
     performance(<<"High", "Low">>, <<"High">>,
                 [productiveHours |-> <<"9:00-10:00", "14:00-15:00">>,
                  averageDuration |-> 45])}

\* analyzeDailyPerformance returns null or the oracle's analysis
AiInsights == {<<>>, <<[efficiency_score |-> 8]>>}

NewReview ==
    [pc |-> "idle", performanceData |-> performance(<<>>, <<>>, NoTimeUsage),
     aiInsights |-> <<>>, currentPatterns |-> NoPatterns, currentInsights |-> <<>>,
     currentPrefs |-> NoPrefs, error |-> "none"]

InitReview ==
    /\ runnerIdle
    /\ executorIdle
    /\ db = EmptyDb
    /\ log = EmptyBag
    /\ planning = NoPlanning
    /\ conflict_resolutions = <<>>
    /\ learning_data = EmptyLearning
    /\ freshness = NoQuery
    /\ reviewing = [i \in 1..MaxReviews |-> NewReview]

\* call i of execute runs to updateLearningPatterns' first await, lines 13-31
\* and 220-224: the Notion queries and the oracle have answered
reviewerExecute(i, performanceData, aiInsights) ==
    /\ reviewing[i].pc = "idle"
    /\ reviewing' = [reviewing EXCEPT ![i].pc = "patterns",
                                      ![i].performanceData = performanceData,
                                      ![i].aiInsights = aiInsights]
    /\ UNCHANGED <<runnerVars, executorVars, db, log, planning, conflict_resolutions, learning_data,
                   freshness>>

\* getLearningData('task_patterns') settles, line 224
patternsRead(i) ==
    /\ reviewing[i].pc = "patterns"
    /\ reviewing' = [reviewing EXCEPT
                        ![i].pc = "savePatterns",
                        ![i].currentPatterns =
                            storedOr(learning_data, "task_patterns", NoPatterns)]
    /\ UNCHANGED <<runnerVars, executorVars, db, log, planning, conflict_resolutions, learning_data,
                   freshness>>

\* a rejected store call lands in execute's catch
reviewThrows(i) == [reviewing EXCEPT ![i].pc = "catch", ![i].error = "SQLITE_ERROR"]

\* saveLearningData('task_patterns', updatedPatterns) settles, lines 226-245
patternsSaved(i, ok) ==
    LET r == reviewing[i]
    IN  /\ r.pc = "savePatterns"
        /\ learning_data' =
              saveLearningData(learning_data, "task_patterns",
                               updatedPatterns(r.currentPatterns, r.performanceData), ok)
        /\ reviewing' = IF ~ok THEN reviewThrows(i)
                        ELSE [reviewing EXCEPT ![i].pc = IF r.aiInsights # <<>>
                                                          THEN "insights"
                                                          ELSE "preferences"]
        /\ UNCHANGED <<runnerVars, executorVars, db, log, planning, conflict_resolutions, freshness>>

\* getLearningData('performance_insights') settles, line 246
insightsRead(i) ==
    /\ reviewing[i].pc = "insights"
    /\ reviewing' = [reviewing EXCEPT
                        ![i].pc = "saveInsights",
                        ![i].currentInsights = learning_data.performance_insights]
    /\ UNCHANGED <<runnerVars, executorVars, db, log, planning, conflict_resolutions, learning_data,
                   freshness>>

\* saveLearningData('performance_insights', updatedInsights) settles,
\* lines 248-261
insightsSaved(i, ok) ==
    LET r == reviewing[i]
    IN  /\ r.pc = "saveInsights"
        /\ learning_data' =
              saveLearningData(learning_data, "performance_insights",
                               updatedInsights(r.currentInsights, r.aiInsights[1]), ok)
        /\ reviewing' = IF ~ok THEN reviewThrows(i)
                        ELSE [reviewing EXCEPT ![i].pc = "preferences"]
        /\ UNCHANGED <<runnerVars, executorVars, db, log, planning, conflict_resolutions, freshness>>

\* adaptUserPreferences' getLearningData('user_preferences') settles,
\* lines 342-363
preferencesRead(i) ==
    LET currentPrefs == storedOr(learning_data, "user_preferences", NoPrefs)
    IN  /\ reviewing[i].pc = "preferences"
        /\ reviewing' =
              [reviewing EXCEPT
                  ![i].pc = IF adaptedPreferences(currentPrefs,
                                                  reviewing[i].performanceData) = <<>>
                            THEN "report" ELSE "savePreferences",
                  ![i].currentPrefs = currentPrefs]
        /\ UNCHANGED <<runnerVars, executorVars, db, log, planning, conflict_resolutions,
                       learning_data, freshness>>

\* saveLearningData('user_preferences', ...) settles, lines 364-371
preferencesSaved(i, ok) ==
    LET r == reviewing[i]
    IN  /\ r.pc = "savePreferences"
        /\ learning_data' =
              saveLearningData(learning_data, "user_preferences",
                               adaptedPreferences(r.currentPrefs, r.performanceData)[1],
                               ok)
        /\ reviewing' = IF ~ok THEN reviewThrows(i)
                        ELSE [reviewing EXCEPT ![i].pc = "report"]
        /\ UNCHANGED <<runnerVars, executorVars, db, log, planning, conflict_resolutions, freshness>>

\* the report is read back, stored and the 'success' record written, lines
\* 33-59; ok: none of these store calls rejected
reviewStored(i, ok) ==
    /\ reviewing[i].pc = "report"
    /\ db' = IF ok THEN agentWrites("reviewer", db) ELSE db
    /\ log' = IF ok THEN logAgentExecution(log, agentClassName("reviewer"), "success")
              ELSE log
    /\ reviewing' = IF ok THEN [reviewing EXCEPT ![i].pc = "returned"]
                    ELSE reviewThrows(i)
    /\ UNCHANGED <<runnerVars, executorVars, planning, conflict_resolutions, learning_data, freshness>>

\* execute's catch, lines 61-66: the 'error' record, then the rethrow
reviewFailed(i, ok) ==
    /\ reviewing[i].pc = "catch"
    /\ log' = IF ok THEN logAgentExecution(log, agentClassName("reviewer"), "error")
              ELSE log
    /\ reviewing' = [reviewing EXCEPT ![i].pc = "threw"]
    /\ UNCHANGED <<runnerVars, executorVars, db, planning, conflict_resolutions, learning_data,
                   freshness>>

NextReview ==
    \E i \in 1..MaxReviews :
        \/ \E performanceData \in ReviewPerformances, aiInsights \in AiInsights :
              reviewerExecute(i, performanceData, aiInsights)
        \/ patternsRead(i)
        \/ \E ok \in BOOLEAN : patternsSaved(i, ok)
        \/ insightsRead(i)
        \/ \E ok \in BOOLEAN : insightsSaved(i, ok)
        \/ preferencesRead(i)
        \/ \E ok \in BOOLEAN : preferencesSaved(i, ok)
        \/ \E ok \in BOOLEAN : reviewStored(i, ok)
        \/ \E ok \in BOOLEAN : reviewFailed(i, ok)

SpecReview == InitReview /\ [][NextReview]_vars

\* --------------------------- ReviewerAgent.updateLearningPatterns in sequence
MaxRuns == 4         \* calls of updateLearningPatterns, one after the other

\* performance records of successive days: up to three productive hours, all
\* different, per day (analyzeTimeUsage lines 207-212)
LearnPerformances ==
    {performance(<<>>, <<>>, NoTimeUsage),
     performance(<<>>, <<"Low">>, NoTimeUsage),
     performance(<<"High">>, <<>>,
                 [productiveHours |-> <<"9:00-10:00", "10:00-11:00", "11:00-12:00">>,
                  averageDuration |-> 30]),
     performance(<<"High", "Low">>, <<"High">>,
                 [productiveHours |-> <<"12:00-13:00", "13:00-14:00">>,
                  averageDuration |-> 45]),
     performance(<<"Low">>, <<>>,
                 [productiveHours |-> <<"9:00-10:00", "14:00-15:00">>,
                  averageDuration |-> 45]),
     performance(<<"High", "High", "High">>, <<"High">>,
                 [productiveHours |-> <<"9:00-10:00">>, averageDuration |-> 30])}

\* reviewing keeps the number of calls made, the last call's argument, the
\* task_patterns it read, whether its write of task_patterns went through, and
\* per priority the completed tasks of the calls whose write went through
InitLearn ==
    /\ runnerIdle
    /\ executorIdle
    /\ db = EmptyDb
    /\ log = EmptyBag
    /\ planning = NoPlanning
    /\ conflict_resolutions = <<>>
    /\ learning_data = EmptyLearning
    /\ freshness = NoQuery
    /\ reviewing = [runs |-> 0, performanceData |-> performance(<<>>, <<>>, NoTimeUsage),
                    currentPatterns |-> NoPatterns, saved |-> FALSE,
                    completed |-> [priority \in Priorities |-> 0]]

\* One call, lines 220-262, with no other call in between. failAt is the store
\* write that rejects: 1 task_patterns, 2 performance_insights,
\* 3 user_preferences, 0 none; a rejected write ends the call.
updateLearningPatterns(performanceData, aiInsights, failAt) ==
    LET currentPatterns == storedOr(learning_data, "task_patterns", NoPatterns)
        afterPatterns ==
            saveLearningData(learning_data, "task_patterns",
                             updatedPatterns(currentPatterns, performanceData),
                             failAt # 1)
        afterInsights ==
            IF failAt = 1 \/ aiInsights = <<>> THEN afterPatterns
            ELSE saveLearningData(afterPatterns, "performance_insights",
                                  updatedInsights(afterPatterns.performance_insights,
                                                  aiInsights[1]),
                                  failAt # 2)
        adapted == adaptedPreferences(storedOr(afterInsights, "user_preferences", NoPrefs),
                                      performanceData)
    IN  /\ reviewing.runs < MaxRuns
        /\ failAt = 2 => aiInsights # <<>>
        /\ failAt = 3 => adapted # <<>>
        /\ learning_data' =
              IF failAt \in {1, 2} \/ adapted = <<>> THEN afterInsights
              ELSE saveLearningData(afterInsights, "user_preferences", adapted[1],
                                    failAt # 3)
        /\ reviewing' =
              [runs |-> reviewing.runs + 1, performanceData |-> performanceData,
               currentPatterns |-> currentPatterns, saved |-> failAt # 1,
               completed |->
                  [priority \in Priorities |->
                      reviewing.completed[priority]
                      + IF failAt # 1
                        THEN numberOf(performanceData.completedTasks, priority)
                        ELSE 0]]
        /\ UNCHANGED <<runnerVars, executorVars, db, log, planning, conflict_resolutions, freshness>>

NextLearn ==
    \E performanceData \in LearnPerformances, aiInsights \in AiInsights,
       failAt \in 0..3 :
        updateLearningPatterns(performanceData, aiInsights, failAt)

SpecLearn == InitLearn /\ [][NextLearn]_vars

\* ------------------------------------- the hand-off through the store
\* A run of the collector stores a snapshot under latest_collected_data, a run
\* of the planner reads it and stores a plan under latest_plan, a run of the
\* executor reads that. Here a stored snapshot is the serial number of the
\* call that stored it, and a stored plan names the call that stored it and
\* the snapshot it was made from. act holds the calls, finished ones too.
HandoffJobs == {"collector", "planner", "fullWorkflow"}

NewRun(serial, j, origin) ==
    [serial |-> serial, job |-> j, origin |-> origin,
     phase |-> IF j = "fullWorkflow" THEN "collector" ELSE j,
     pc |-> IF j = "planner" THEN "read" ELSE "collect",
     collected |-> None, used |-> None, planned |-> None, executed |-> <<>>]

InitHandoff ==
    /\ ready = TRUE /\ isRunning = TRUE /\ jobs = JobNames /\ initialPending = 0
    /\ metrics = ZeroMetrics /\ loaded = ZeroMetrics
    /\ act = EmptyBag /\ calls = 0 /\ faults = 0
    /\ db = EmptyDb
    /\ log = EmptyBag
    /\ agentsIdle

\* runAgent(j, ...) or runFullWorkflow() is called by a cron job or a request
handoffInvoke(j, origin) ==
    /\ calls < MaxCalls
    /\ calls' = calls + 1
    /\ act' = act (+) SetToBag({NewRun(calls + 1, j, origin)})
    /\ UNCHANGED <<ready, isRunning, jobs, initialPending, metrics, loaded, db, log,
                   faults, agentVars>>

\* what a run goes on with when its phase has returned a result
phaseDone(r) ==
    IF r.job # "fullWorkflow" THEN [r EXCEPT !.pc = "done"]
    ELSE [r EXCEPT !.pc = "wait",
                   !.phase = IF r.phase = "collector" THEN "planner" ELSE "executor"]

\* CollectorAgent.execute stores its snapshot, part_001 lines 45-46; a failed
\* run ends its workflow (agent-runner.js lines 177-180)
collectorStores(r, ok) ==
    /\ r.pc = "collect"
    /\ db' = IF ok THEN setState(setState(db, "latest_collected_data", r.serial),
                                 "last_collection_time", Stored)
             ELSE db
    /\ becomes(r, IF ok THEN [phaseDone(r) EXCEPT !.collected = r.serial]
                  ELSE [r EXCEPT !.pc = "failed"])
    /\ UNCHANGED <<ready, isRunning, jobs, initialPending, metrics, loaded, log, faults>>

\* the workflow's setTimeout between two phases elapses, lines 183 and 193
handoffWaitElapses(r) ==
    /\ r.pc = "wait"
    /\ becomes(r, [r EXCEPT !.pc = IF r.phase = "planner" THEN "read" ELSE "execute"])
    /\ UNCHANGED <<ready, isRunning, jobs, initialPending, metrics, loaded, db, log,
                   faults>>

\* PlannerAgent.execute reads the latest snapshot, lines 19-23
plannerReads(r) ==
    /\ r.pc = "read"
    /\ becomes(r, IF db.latest_collected_data = None THEN [r EXCEPT !.pc = "failed"]
                  ELSE [r EXCEPT !.pc = "plan", !.used = db.latest_collected_data])
    /\ UNCHANGED <<ready, isRunning, jobs, initialPending, metrics, loaded, db, log,
                   faults>>

\* PlannerAgent.execute stores its plan, lines 56-58
plannerStores(r, ok) ==
    /\ r.pc = "plan"
    /\ db' = IF ok THEN setState(setState(db, "latest_plan",
                                          [by |-> r.serial, data |-> r.used]),
                                 "last_planning_time", Stored)
             ELSE db
    /\ becomes(r, IF ok THEN [phaseDone(r) EXCEPT !.planned = r.serial]
                  ELSE [r EXCEPT !.pc = "failed"])
    /\ UNCHANGED <<ready, isRunning, jobs, initialPending, metrics, loaded, log, faults>>

\* ExecutorAgent.execute reads the latest plan and executes it,
\* executor-agent.js lines 31-35
executorReads(r) ==
    /\ r.pc = "execute"
    /\ becomes(r, [r EXCEPT !.pc = "done", !.executed = <<db.latest_plan>>])
    /\ UNCHANGED <<ready, isRunning, jobs, initialPending, metrics, loaded, db, log,
                   faults>>

NextHandoff ==
    \/ \E j \in HandoffJobs, origin \in {"timer", "manual"} : handoffInvoke(j, origin)
    \/ \E r \in Calls, ok \in BOOLEAN : collectorStores(r, ok)
    \/ \E r \in Calls : handoffWaitElapses(r)
    \/ \E r \in Calls : plannerReads(r)
    \/ \E r \in Calls, ok \in BOOLEAN : plannerStores(r, ok)
    \/ \E r \in Calls : executorReads(r)

SpecHandoff == InitHandoff /\ [][NextHandoff]_vars

\* ------------------------------------------------- ExecutorAgent.execute
\* The calendar is the sequence of its events, an event's id its place in the
\* sequence. Notion holds one page per task id. A stored plan is its timestamp
\* and its schedule; the executor never writes to it.
MaxPlans == 2

MaxExecutions == 2

ExecTaskIds == {"t1"}

\* the schedules the planner may store, by the titles of their entries
ExecSchedules == {<<"a">>, <<"b", "a">>}

\* the Notion page an entry is scheduled for, <<>> for none: "b" names none
taskIdOf(title) == IF title = "a" THEN <<"t1">> ELSE <<>>

\* one entry of plan.schedule. The planning prompt's entry has no eventId; an
\* answer may still carry the one the collector read from the task's page.
scheduleEntry(title, echoed) ==
    [title |-> title, taskId |-> taskIdOf(title),
     eventId |-> IF echoed /\ taskIdOf(title) # <<>>
                 THEN services.notion[taskIdOf(title)[1]].EventId ELSE None]

\* the store with the executor's keys; latest_plan and latest_execution hold
\* <<>> or the one value stored
ExecDb == [EmptyDb EXCEPT !.latest_plan = <<>>]
              @@ [google_tokens |-> None, latest_execution |-> <<>>,
                  last_execution_time |-> None]

InitExecute ==
    /\ runnerIdle
    /\ db \in {ExecDb, setState(ExecDb, "google_tokens", Stored)}
    /\ log = EmptyBag
    /\ planning = NoPlanning
    /\ conflict_resolutions = <<>>
    /\ learning_data = EmptyLearning
    /\ freshness = NoQuery
    /\ reviewing = NoReviews
    /\ executing = [pc |-> "idle", runs |-> 0]
    /\ services = [calendar |-> <<>>,
                   notion |-> [t \in ExecTaskIds |-> [EventId |-> None, Status |-> "To Do"]],
                   telegram |-> 0]

\* a run of the planner stores a plan under latest_plan with a later timestamp
newPlanAppears(titles, echoed) ==
    LET timestamp == IF db.latest_plan = <<>> THEN 1 ELSE db.latest_plan[1].timestamp + 1
        plan == [timestamp |-> timestamp,
                 schedule |-> [k \in DOMAIN titles |-> scheduleEntry(titles[k], echoed)]]
    IN  /\ timestamp <= MaxPlans
        /\ db' = setState(setState(db, "latest_plan", <<plan>>), "last_planning_time", Stored)
        /\ UNCHANGED <<runnerVars, executorVars, log, planning, conflict_resolutions,
                       learning_data, freshness, reviewing>>

\* execute() up to the first calendar request: getLatestPlan, then the tokens
executorExecute ==
    /\ executing.pc \in {"idle", "returned", "threw"}
    /\ executing.runs < MaxExecutions
    /\ executing' =
          IF db.latest_plan = <<>>
          THEN [pc |-> "catch", runs |-> executing.runs + 1]
          ELSE [pc |-> IF db.google_tokens = None \/ db.latest_plan[1].schedule = <<>>
                       THEN "notion" ELSE "calendar",
                runs |-> executing.runs + 1, plan |-> db.latest_plan[1], index |-> 0,
                calendarUpdates |-> <<>>, notionUpdates |-> <<>>, notifications |-> <<>>]
    /\ UNCHANGED <<runnerVars, services, db, log, planning, conflict_resolutions,
                   learning_data, freshness, reviewing>>

\* the event the executor sends for an entry of the plan
eventData(plan, task) ==
    [summary |-> task.title, notionId |-> task.taskId, planTimestamp |-> plan.timestamp]

\* events.insert: one more event, the events before it untouched
eventsInsert(calendar, event) == Append(calendar, event)

\* events.update: the event of that id is replaced
eventsUpdate(calendar, eventId, event) == [calendar EXCEPT ![eventId] = event]

\* updateNotionEventId, which catches its own error
updateNotionEventId(notion, taskId, eventId, ok) ==
    IF ok THEN [notion EXCEPT ![taskId].EventId = eventId] ELSE notion

\* one pass of the loop of executeCalendarUpdates. updateOk, insertOk and
\* notionOk say which of the requests this entry makes succeed; the update of
\* an event the calendar does not hold fails.
calendarTaskProcessed(updateOk, insertOk, notionOk) ==
    /\ executing.pc = "calendar"
    /\ LET plan == executing.plan
           task == plan.schedule[executing.index + 1]
           event == eventData(plan, task)
           updated == /\ task.eventId # None
                      /\ task.eventId \in DOMAIN services.calendar
                      /\ updateOk
           inserted == ~updated /\ insertOk
           action == IF updated THEN "updated"
                     ELSE IF inserted THEN "created" ELSE "failed"
           calendar == IF updated
                       THEN eventsUpdate(services.calendar, task.eventId, event)
                       ELSE IF inserted THEN eventsInsert(services.calendar, event)
                       ELSE services.calendar
           notion == IF inserted /\ task.eventId = None /\ task.taskId # <<>>
                     THEN updateNotionEventId(services.notion, task.taskId[1],
                                              Len(calendar), notionOk)
                     ELSE services.notion
       IN  /\ services' = [services EXCEPT !.calendar = calendar, !.notion = notion]
           /\ executing' =
                 [executing EXCEPT
                     !.index = @ + 1,
                     !.calendarUpdates = Append(@, [action |-> action, task |-> task.title]),
                     !.pc = IF executing.index + 1 = Len(plan.schedule)
                            THEN "notion" ELSE "calendar"]
    /\ UNCHANGED <<runnerVars, db, log, planning, conflict_resolutions, learning_data,
                   freshness, reviewing>>

\* the pages executeNotionUpdates asks Notion to update, in schedule order
RECURSIVE notionTasks(_)
notionTasks(schedule) ==
    IF schedule = <<>> THEN <<>>
    ELSE IF Head(schedule).taskId # <<>>
         THEN Head(schedule).taskId \o notionTasks(Tail(schedule))
         ELSE notionTasks(Tail(schedule))

\* executeNotionUpdates and sendNotifications, which run beside the calendar
\* loop and write nothing the loop reads or writes: the Status of every page
\* of the plan, and the plan summary to Telegram. notionOk says whether the
\* page updates succeed, sent whether the bot is configured and delivers.
executeNotionUpdates(notionOk, sent) ==
    /\ executing.pc = "notion"
    /\ LET tasks == notionTasks(executing.plan.schedule)
           pages == {tasks[k] : k \in DOMAIN tasks}
       IN  /\ services' =
                 [services EXCEPT
                     !.notion = [t \in DOMAIN services.notion |->
                                    IF notionOk /\ t \in pages
                                    THEN [services.notion[t] EXCEPT !.Status = "Scheduled"]
                                    ELSE services.notion[t]],
                     !.telegram = IF sent THEN @ + 1 ELSE @]
           /\ executing' =
                 [executing EXCEPT
                     !.pc = "store",
                     !.notionUpdates =
                         [k \in DOMAIN tasks |->
                             [action |-> IF notionOk THEN "updated" ELSE "failed",
                              taskId |-> tasks[k]]],
                     !.notifications = IF sent THEN <<"plan_summary">> ELSE <<>>]
    /\ UNCHANGED <<runnerVars, db, log, planning, conflict_resolutions, learning_data,
                   freshness, reviewing>>

\* the two setState calls and the success row; failAt names the one that
\* throws, 0 for none
executionStored(failAt) ==
    /\ executing.pc = "store"
    /\ LET executionResults ==
               [planExecuted |-> executing.plan.timestamp,
                calendarUpdates |-> executing.calendarUpdates,
                notionUpdates |-> executing.notionUpdates,
                notifications |-> executing.notifications]
           d1 == IF failAt = 1 THEN db
                 ELSE setState(db, "latest_execution", <<executionResults>>)
           d2 == IF failAt \in {1, 2} THEN d1 ELSE setState(d1, "last_execution_time", Stored)
       IN  /\ db' = d2
           /\ log' = IF failAt = 0
                     THEN logAgentExecution(log, agentClassName("executor"), "success")
                     ELSE log
           /\ executing' = [pc |-> IF failAt = 0 THEN "returned" ELSE "catch",
                            runs |-> executing.runs]
    /\ UNCHANGED <<runnerVars, services, planning, conflict_resolutions, learning_data,
                   freshness, reviewing>>

\* the catch block: the error row, then the error is thrown again
executionFailed(ok) ==
    /\ executing.pc = "catch"
    /\ log' = IF ok THEN logAgentExecution(log, agentClassName("executor"), "error")
              ELSE log
    /\ executing' = [pc |-> "threw", runs |-> executing.runs]
    /\ UNCHANGED <<runnerVars, services, db, planning, conflict_resolutions,
                   learning_data, freshness, reviewing>>

NextExecute ==
    \/ \E titles \in ExecSchedules, echoed \in BOOLEAN : newPlanAppears(titles, echoed)
    \/ executorExecute
    \/ \E updateOk \in BOOLEAN, insertOk \in BOOLEAN, notionOk \in BOOLEAN :
          calendarTaskProcessed(updateOk, insertOk, notionOk)
    \/ \E notionOk \in BOOLEAN, sent \in BOOLEAN : executeNotionUpdates(notionOk, sent)
    \/ \E failAt \in 0..3 : executionStored(failAt)
    \/ \E ok \in BOOLEAN : executionFailed(ok)

SpecExecute == InitExecute /\ [][NextExecute]_vars

\* --------------------------------------------------- claims on the planner
\* every recorded conflict is applied exactly when the oracle's answer to it
\* had a confidence above 0.7
GatedByConfidence ==
    \A k \in 1..Len(planning.resolvedConflicts) :
        planning.resolvedConflicts[k].applied
        <=> ( /\ planning.resolutions[k] # <<>>
              /\ planning.resolutions[k][1].confidence > conflictThreshold )

\* the step that records a conflict changes the schedule by the resolution
\* when it records applied: true, and not at all when it records applied: false
RecordedAsDone ==
    Len(planning'.resolvedConflicts) = Len(planning.resolvedConflicts) + 1 =>
        LET e == planning'.resolvedConflicts[Len(planning'.resolvedConflicts)]
        IN  IF e.applied
            THEN planning'.updatedSchedule =
                    applyConflictResolution(planning.updatedSchedule, e.resolution[1])
            ELSE planning'.updatedSchedule = planning.updatedSchedule /\ e.resolution = <<>>

\* C12: a conflict's resolution is applied to the schedule and the conflict
\* recorded applied: true if and only if the oracle's confidence is strictly
\* above 0.7; at 0.7 or below, or on a null answer, the schedule stays as it
\* is and the conflict is recorded applied: false.
C12_ConfidenceGating == []GatedByConfidence /\ [][RecordedAsDone]_vars

C12_Witness ==
    /\ Len(planning.resolvedConflicts) = 2
    /\ planning.resolutions[1] # <<>>
    /\ planning.resolutions[1][1].confidence = conflictThreshold
    /\ ~planning.resolvedConflicts[1].applied
    /\ planning.resolvedConflicts[2].applied
    /\ planning.updatedSchedule # <<taskA, taskB>>

\* C13: the conflicts list resolveConflicts returns has one entry per detected
\* conflict, in the order detected, each with its original conflict and an
\* applied flag, also after null answers of the oracle.
C13_NoConflictDropped ==
    /\ Len(planning.resolvedConflicts) <= Len(planning.conflicts)
    /\ \A k \in 1..Len(planning.resolvedConflicts) :
          /\ planning.resolvedConflicts[k].originalConflict = planning.conflicts[k]
          /\ planning.resolvedConflicts[k].applied \in BOOLEAN
    /\ planning.pc \in {"store", "returned"} =>
          /\ Len(planning.resolvedConflicts) = Len(planning.conflicts)
          /\ planning.finalPlan[1].conflicts = planning.resolvedConflicts

C13_Witness ==
    /\ planning.pc = "returned"
    /\ Len(planning.finalPlan[1].conflicts) = 2
    /\ planning.resolutions[1] = <<>>
    /\ planning.finalPlan[1].conflicts[2].applied

\* C14: when resolveConflicts has processed the n detected conflicts, table
\* conflict_resolutions has grown by n rows, one per conflict.
C14_EveryOutcomeLogged ==
    planning.pc \in {"store", "returned"} =>
        Len(conflict_resolutions) = Len(planning.conflicts)

\* the schedule optimizePlan was called on, and the one it returned
beforeBuffer == learnedPasses(planning.updatedSchedule, planning.learningData)

optimized == planning.finalPlan[1].schedule

\* C15: in the schedule optimizePlan returns every entry starts at least 15
\* minutes after the end of the entry before it; the buffer pass keeps every
\* entry's duration and neither reorders, adds nor removes entries.
C15_BufferInvariant ==
    planning.pc = "store" =>
        /\ \A i \in 1..(Len(optimized) - 1) :
              /\ isValid(optimized[i].endTime) /\ isValid(optimized[i + 1].startTime)
              /\ optimized[i + 1].startTime >= optimized[i].endTime + bufferMinutes
        /\ Len(optimized) = Len(beforeBuffer)
        /\ \A i \in 1..Len(optimized) :
              /\ optimized[i].title = beforeBuffer[i].title
              /\ optimized[i].priority = beforeBuffer[i].priority
              /\ duration(optimized[i].startTime, optimized[i].endTime)
                 = duration(beforeBuffer[i].startTime, beforeBuffer[i].endTime)

\* C16: a planner run for which no snapshot collected within the last 20
\* minutes exists fails and stores no plan.
C16_DataUnavailable ==
    ~isDataFresh(db, planning.dataAge) =>
        /\ planning.pc \in {"idle", "catch", "threw"}
        /\ db.latest_plan = None

ParseFailureNotes == {<<"Failed to parse AI response">>, <<"Error parsing AI response">>}

\* C17: when the oracle's plan response holds no parsable structure the
\* planner run goes on (only a rejected store write can still fail it), and
\* the plan it stores and returns has an empty schedule, no conflicts and
\* the one recommendation that flags the parse failure, logged as success.
C17_SoftParseFailure ==
    planning.planResponse \in {"prose", "broken"} =>
        /\ planning.pc \in {"catch", "threw"} => planning.error = "SQLITE_ERROR"
        /\ planning.pc \in {"store", "returned"} =>
              /\ planning.finalPlan[1].schedule = <<>>
              /\ planning.finalPlan[1].conflicts = <<>>
              /\ planning.finalPlan[1].recommendations \in ParseFailureNotes
        /\ planning.pc = "returned" =>
              /\ db.latest_plan = Stored
              /\ BagIn([agent |-> "PlannerAgent", status |-> "success"], log)
              /\ ~BagIn([agent |-> "PlannerAgent", status |-> "error"], log)

C17_Witness ==
    /\ planning.planResponse = "prose"
    /\ planning.pc = "returned"
    /\ planning.finalPlan[1].recommendations = <<"Failed to parse AI response">>

\* C18: the planner never fails because of the oracle: whatever the oracle
\* answers (nothing, prose, broken JSON, a malformed object), a planner run
\* that fails has failed for want of data or on a store write.
C18_OracleFailureContained ==
    planning.pc \in {"catch", "threw"} =>
        planning.error \in {"No data available from CollectorAgent", "SQLITE_ERROR"}

\* C19: isPlanFresh answers true exactly when a last planning time is stored
\* and it is less than 120 minutes old, isDataFresh exactly when a last
\* collection time is stored and it is less than 20 minutes old.
C19_FreshnessBoundary ==
    freshness.pc = "answered" =>
        /\ freshness.of = "plan" =>
              (freshness.result <=>
                  (db.last_planning_time = Stored /\ freshness.diffMinutes < 120))
        /\ freshness.of = "data" =>
              (freshness.result <=>
                  (db.last_collection_time = Stored /\ freshness.diffMinutes < 20))

C19_Witness ==
    /\ freshness.pc = "answered" /\ freshness.of = "plan"
    /\ db.last_planning_time = Stored
    /\ freshness.diffMinutes = 120 /\ ~freshness.result

\* the stored maxDailyTasks, None when no row or no such field is stored
storedMaxDailyTasks(ld) ==
    IF ld.user_preferences = <<>> THEN None
    ELSE ld.user_preferences[1].maxDailyTasks

\* C20: whatever sequence of adaptUserPreferences calls runs, the stored
\* maxDailyTasks is unset or an integer from 3 to 12, and one call changes a
\* stored value by at most 1 and never sets or unsets it out of that range.
C20_InRange ==
    \/ storedMaxDailyTasks(learning_data) = None
    \/ storedMaxDailyTasks(learning_data) \in 3..12

C20_OneStep ==
    LET before == storedMaxDailyTasks(learning_data)
        after == storedMaxDailyTasks(learning_data')
    IN  (before # None /\ after # None) =>
            (after - before \in {-1, 0, 1})

C20_MaxDailyTasksBounded == []C20_InRange /\ [][C20_OneStep]_vars

C20_Witness ==
    /\ learning_data.user_preferences # <<>>
    /\ learning_data.user_preferences[1].lastAdapted
    /\ learning_data.user_preferences[1].maxDailyTasks = 3
    /\ learning_data.user_preferences[1].peakProductivityHours = <<>>
    /\ learning_data.user_preferences[1].preferredTaskDuration = None

\* the oracle's answer to the conflict this step has analysed
answer == planning'.resolutions[Len(planning'.resolutions)]

\* this step of resolveConflicts applies a resolution of the kinds given
applies(kinds) ==
    /\ planning'.index = planning.index + 1
    /\ confident(answer)
    /\ answer[1].resolution \in kinds

\* the first entry that starts at time t, 0 when there is none
firstAt(schedule, t) ==
    IF \E i \in DOMAIN schedule : schedule[i].startTime = t
    THEN CHOOSE i \in DOMAIN schedule :
            /\ schedule[i].startTime = t
            /\ \A j \in 1..(i - 1) : schedule[j].startTime # t
    ELSE 0

\* C22: an applied move_task resolution gives the (first) entry that starts
\* at the resolution's originalTime the start newTime and the end newTime plus
\* its duration before the move; every other entry, and the number and order
\* of the entries, stay as they are; without such an entry nothing changes.
C22_MoveTask ==
    [][applies({"move_task"}) =>
        LET old == planning.updatedSchedule
            new == planning'.updatedSchedule
            k == firstAt(old, answer[1].originalTime)
        IN  /\ Len(new) = Len(old)
            /\ k = 0 => new = old
            /\ k # 0 =>
                  /\ new[k].startTime = answer[1].newTime
                  /\ new[k].endTime = answer[1].newTime
                                      + (old[k].endTime - old[k].startTime)
                  /\ new[k].title = old[k].title
                  /\ new[k].priority = old[k].priority
                  /\ \A i \in DOMAIN old : i # k => new[i] = old[i]]_vars

C22_Witness ==
    /\ Len(planning.resolvedConflicts) = 1
    /\ planning.resolvedConflicts[1].applied
    /\ planning.resolvedConflicts[1].resolution[1].resolution = "move_task"
    /\ planning.resolvedConflicts[1].resolution[1].originalTime = 570
    /\ Len(planning.updatedSchedule) = 2
    /\ planning.updatedSchedule[1].startTime = 660
    /\ planning.updatedSchedule[1].endTime = 690
    /\ planning.updatedSchedule[2].startTime = 570

\* C23: a step of resolveConflicts whose resolution is split_task or
\* reschedule_event leaves the schedule as it is, entries, times and order,
\* whatever its confidence; an applied one is recorded with the conflict.
C23_OtherKindsKeepSchedule ==
    [][( /\ planning'.index = planning.index + 1
         /\ answer # <<>>
         /\ answer[1].resolution \in {"split_task", "reschedule_event"} ) =>
        /\ planning'.updatedSchedule = planning.updatedSchedule
        /\ (confident(answer) /\ planning'.pc = "resolve") =>
              planning'.resolvedConflicts =
                 Append(planning.resolvedConflicts,
                        [originalConflict |-> planning.conflicts[planning'.index],
                         resolution |-> answer, applied |-> TRUE])]_vars

C23_Witness ==
    /\ Len(planning.resolvedConflicts) = 2
    /\ planning.resolvedConflicts[1].applied
    /\ planning.resolvedConflicts[1].resolution[1].resolution = "split_task"
    /\ planning.resolvedConflicts[2].applied
    /\ planning.resolvedConflicts[2].resolution[1].resolution = "reschedule_event"
    /\ Len(planning.updatedSchedule) = 2
    /\ planning.updatedSchedule[1].startTime = 570

\* the learned data optimizePlan was called with
slotsStored == planning.learningData.productiveTimeSlots # <<>>

efficiencyStored == planning.learningData.taskTypeEfficiency # <<>>

\* C24: optimizePlan runs the productive-slot pass, then the efficiency pass,
\* then the buffer pass; optimizations holds one description per pass run, in
\* that order: the buffer pass's always and last, the other two exactly when
\* their learned data is stored; so it has 1 to 3 entries.
C24_PassesInOrder ==
    planning.pc = "store" =>
        LET plan == planning.finalPlan[1]
            passes == planning.passes
        IN  /\ passes[1] = planning.updatedSchedule
            /\ passes[2] = IF slotsStored
                           THEN optimizeForProductiveTimeSlots(
                                    passes[1], planning.learningData.productiveTimeSlots[1])
                           ELSE passes[1]
            /\ passes[3] = IF efficiencyStored
                           THEN optimizeTaskOrdering(
                                    passes[2], planning.learningData.taskTypeEfficiency[1])
                           ELSE passes[2]
            /\ passes[4] = addBufferTime(passes[3])
            /\ plan.schedule = passes[4]
            /\ plan.optimizations =
                  (IF slotsStored THEN <<"Applied productive time slot optimization">>
                   ELSE <<>>)
                  \o (IF efficiencyStored
                      THEN <<"Optimized task ordering based on efficiency patterns">>
                      ELSE <<>>)
                  \o <<"Added buffer time between tasks">>
            /\ Len(plan.optimizations) \in 1..3
            /\ plan.optimizations[Len(plan.optimizations)]
               = "Added buffer time between tasks"

C24_Witness ==
    /\ planning.pc = "store"
    /\ Len(planning.finalPlan[1].optimizations) = 3
    /\ Len(planning.passes[1]) = 2
    /\ planning.passes[2] # planning.passes[1]
    /\ planning.passes[3] # planning.passes[2]
    /\ planning.passes[4] # planning.passes[3]

\* the bijections of 1..n
Bijections(n) ==
    {pi \in [1..n -> 1..n] : \A i, j \in 1..n : pi[i] = pi[j] => i = j}

\* High = 3, Medium = 2, Low = 1
weightOf(task) ==
    IF task.priority = "High" THEN 3 ELSE IF task.priority = "Medium" THEN 2 ELSE 1

\* C25: the productive-slot pass returns its input sorted by priority weight,
\* highest first, entries of equal weight in their original order; with
\* n >= 1 learned slots the k-th High entry (k = 0, 1, ...) gets the start and
\* end of slot k mod n, a defined start and a defined end; the entries that
\* are not High keep their start and end.
C25_ProductiveSlots ==
    (planning.pc = "store" /\ slotsStored) =>
        LET in == planning.passes[1]
            out == planning.passes[2]
            slots == planning.learningData.productiveTimeSlots[1]
            n == Len(slots)
        IN  /\ Len(out) = Len(in)
            /\ \E pi \in Bijections(Len(in)) :
                  /\ \A k \in DOMAIN out :
                        /\ out[k].title = in[pi[k]].title
                        /\ out[k].priority = in[pi[k]].priority
                        /\ (out[k].priority # "High" \/ n = 0) =>
                              /\ out[k].startTime = in[pi[k]].startTime
                              /\ out[k].endTime = in[pi[k]].endTime
                  /\ \A k, l \in DOMAIN out :
                        k < l => \/ weightOf(out[k]) > weightOf(out[l])
                                 \/ /\ weightOf(out[k]) = weightOf(out[l])
                                    /\ pi[k] < pi[l]
            /\ \A k \in DOMAIN out :
                  (out[k].priority = "High" /\ n >= 1) =>
                     LET slot == slots[((k - 1) % n) + 1]
                     IN  /\ isValid(out[k].startTime)
                         /\ isValid(out[k].endTime)
                         /\ "start" \in DOMAIN slot => out[k].startTime = slot.start
                         /\ "end" \in DOMAIN slot => out[k].endTime = slot.end

\* the learned score of a title, in tenths; 0.5 for a title without one
scoreOf(efficiencyData, title) ==
    IF title \in DOMAIN efficiencyData THEN efficiencyData[title] ELSE 5

\* C26: the efficiency pass returns a permutation of its input in which no
\* entry precedes an entry of strictly higher score, the score of an entry
\* being the learned score of its title (also a learned 0) and 0.5 only
\* without a learned score.
C26_EfficiencyOrder ==
    (planning.pc = "store" /\ efficiencyStored) =>
        LET in == planning.passes[2]
            out == planning.passes[3]
            efficiencyData == planning.learningData.taskTypeEfficiency[1]
        IN  /\ \E pi \in Bijections(Len(in)) :
                  Len(out) = Len(in) /\ \A k \in DOMAIN out : out[k] = in[pi[k]]
            /\ \A k, l \in DOMAIN out :
                  k < l => scoreOf(efficiencyData, out[k].title)
                           >= scoreOf(efficiencyData, out[l].title)

\* C27: every entry of the schedule a planner run stores as latest_plan has
\* a defined start and a defined end after it, the proposal's entries having
\* them; also when the productive time slots are those the reviewer stored.
C27_EntriesWellFormed ==
    (planning.pc \in {"store", "returned"}) =>
        \A k \in DOMAIN planning.finalPlan[1].schedule :
            LET task == planning.finalPlan[1].schedule[k]
            IN  /\ isValid(task.startTime)
                /\ isValid(task.endTime)
                /\ task.endTime > task.startTime

\* C34: the planningConfidence of a plan is 0.80, less 0.10 for each of its
\* conflicts recorded applied: false, plus 0.05 for each reported
\* optimization, kept within [0, 1] (in hundredths here).
C34_PlanConfidence ==
    planning.finalPlan # <<>> =>
       LET plan == planning.finalPlan[1]
           unresolved == Cardinality({k \in DOMAIN plan.conflicts :
                                         ~plan.conflicts[k].applied})
           expected == 80 - 10 * unresolved + 5 * Len(plan.optimizations)
       IN  plan.planningConfidence
           = IF expected > 100 THEN 100 ELSE IF expected < 0 THEN 0 ELSE expected

\* C37: a step of resolveConflicts that records a conflict applied: true with
\* a move_task resolution as the oracle contract describes it (resolution,
\* newTime, reason, confidence: no originalTime) has relocated exactly one
\* schedule entry to the resolution's newTime.
C37_AppliedTookEffect ==
    [][(/\ applies({"move_task"})
        /\ answer[1].originalTime = None
        /\ Len(planning'.resolvedConflicts) = Len(planning.resolvedConflicts) + 1
        /\ planning'.resolvedConflicts[Len(planning'.resolvedConflicts)].applied) =>
          LET old == planning.updatedSchedule
              new == planning'.updatedSchedule
          IN  /\ Len(new) = Len(old)
              /\ \E k \in DOMAIN old :
                    /\ new[k] # old[k]
                    /\ new[k].startTime = answer[1].newTime
                    /\ \A i \in DOMAIN old : i # k => new[i] = old[i]]_vars

\* -------------------------------------------------- claims on the reviewer
\* every call of ReviewerAgent.execute has returned or is still to be made
reviewsCompleted ==
    \A i \in DOMAIN reviewing : reviewing[i].pc \in {"idle", "returned"}

returnedReviews == {i \in DOMAIN reviewing : reviewing[i].pc = "returned"}

storedPatterns == storedOr(learning_data, "task_patterns", NoPatterns)

\* the stored weight of a productive slot, 0 when the slot is not stored
storedWeight(time) ==
    LET slots == storedPatterns.productiveTimeSlots
        k == indexOf(slots, time)
    IN  IF k = 0 THEN 0 ELSE slots[k].weight

\* the stored priority-effectiveness count, 0 when there is none
storedCount(priority) ==
    LET e == storedPatterns.priorityEffectiveness[priority]
    IN  IF e = <<>> THEN 0 ELSE e[1].count

RECURSIVE total(_, _)
\* the sum of f over the set S
total(f, S) ==
    IF S = {} THEN 0
    ELSE LET x == CHOOSE y \in S : TRUE IN f[x] + total(f, S \ {x})

\* C21: when every reviewer run has completed, starting from an empty store,
\* each stored productive-slot weight is the number of runs that observed the
\* slot and each priority-effectiveness count is the number of completed
\* tasks of that priority over all runs: no run's update is lost.
C21_NoLostUpdate ==
    reviewsCompleted =>
        /\ \A time \in {"9:00-10:00", "14:00-15:00"} :
              storedWeight(time) =
                 Cardinality({i \in returnedReviews :
                                \E k \in DOMAIN reviewing[i].performanceData.productiveHours :
                                   reviewing[i].performanceData.productiveHours[k] = time})
        /\ \A priority \in Priorities :
              storedCount(priority) =
                 total([i \in returnedReviews |->
                          numberOf(reviewing[i].performanceData.completedTasks, priority)],
                       returnedReviews)

\* call i of execute stores its updated task_patterns in this step
savesPatterns(i) ==
    /\ reviewing[i].pc = "savePatterns"
    /\ reviewing'[i].pc \in {"insights", "preferences"}

\* the rates call i read, and the rates stored after its write
ratesRead(i) == reviewing[i].currentPatterns.taskCompletionRates

ratesStored == learning_data'.task_patterns[1].taskCompletionRates

completedOf(i, priority) == numberOf(reviewing[i].performanceData.completedTasks, priority)

totalOf(i, priority) ==
    completedOf(i, priority) + numberOf(reviewing[i].performanceData.missedTasks, priority)

\* C29: for each priority among the period's tasks, with new = completed/total,
\* the stored rate becomes 0.7 * previous + 0.3 * new when a previous value is
\* stored, a previous 0 included, and new when none is; the rates of the
\* priorities absent from the period stay as they are.
C29_Blending ==
    [][\A i \in DOMAIN reviewing : savesPatterns(i) =>
          \A priority \in Priorities :
             LET previous == ratesRead(i)[priority]
                 new == dividedBy(completedOf(i, priority), totalOf(i, priority))
             IN  IF totalOf(i, priority) = 0
                 THEN ratesStored[priority] = previous
                 ELSE IF previous # <<>>
                 THEN ratesStored[priority]
                      = <<plus(times(dividedBy(7, 10), previous[1]),
                               times(dividedBy(3, 10), new))>>
                 ELSE ratesStored[priority] = <<new>>]_vars

\* x <= y on numbers
atMost(x, y) == ~lessThan(y, x)

\* C30: when the stored rate of a priority equals the period's rate r, the
\* update leaves it exactly r; and from any stored rate x the update gives a
\* rate between x and r, never beyond r.
C30_FixedPoint ==
    [][\A i \in DOMAIN reviewing : savesPatterns(i) =>
          \A priority \in Priorities :
             (totalOf(i, priority) > 0 /\ ratesRead(i)[priority] # <<>>) =>
                LET x == ratesRead(i)[priority][1]
                    r == dividedBy(completedOf(i, priority), totalOf(i, priority))
                    y == ratesStored[priority][1]
                IN  /\ x = r => y = r
                    /\ atMost(x, r) => atMost(x, y) /\ atMost(y, r)
                    /\ atMost(r, x) => atMost(r, y) /\ atMost(y, x)]_vars

\* C28: a call whose period has c completed and t - c missed tasks, t > 0,
\* and whose store write goes through: with c/t < 0.7 a stored maxDailyTasks
\* goes down by 1, not below 3; with c/t > 0.9 it goes up by 1, not above 12,
\* from 8 when it is unset (unset becomes 9); otherwise it stays as it is.
C28_AdaptationRule ==
    (reviewing.pc = "adapted" /\ reviewing.saved) =>
        LET c == Len(reviewing.performanceData.completedTasks)
            t == c + Len(reviewing.performanceData.missedTasks)
            before == reviewing.currentPrefs.maxDailyTasks
            after == storedMaxDailyTasks(learning_data)
            base == IF before = None THEN 8 ELSE before
        IN  t > 0 =>
               IF 10 * c < 7 * t
               THEN before # None => after = (IF before - 1 > 3 THEN before - 1 ELSE 3)
               ELSE IF 10 * c > 9 * t
               THEN after = (IF base + 1 < 12 THEN base + 1 ELSE 12)
               ELSE after = before

\* C40: a call whose period has no completed and no missed task works with
\* the completion rate 0; when its store write goes through, a stored
\* maxDailyTasks above 3 has gone down by 1 and one of 3 has stayed, so that
\* successive empty periods bring it down to 3.
C40_EmptyPeriod ==
    (/\ reviewing.pc = "adapted"
     /\ reviewing.performanceData.completedTasks = <<>>
     /\ reviewing.performanceData.missedTasks = <<>>) =>
        /\ reviewing.performanceData.completionRate = Zero
        /\ (reviewing.saved /\ reviewing.currentPrefs.maxDailyTasks # None) =>
              storedMaxDailyTasks(learning_data)
              = IF reviewing.currentPrefs.maxDailyTasks > 3
                THEN reviewing.currentPrefs.maxDailyTasks - 1
                ELSE 3

\* an empty period has brought a stored 4 down to 3
C40_Witness ==
    /\ reviewing.pc = "adapted"
    /\ reviewing.saved
    /\ reviewing.performanceData.completedTasks = <<>>
    /\ reviewing.performanceData.missedTasks = <<>>
    /\ reviewing.currentPrefs.maxDailyTasks = 4
    /\ storedMaxDailyTasks(learning_data) = 3

\* ------------------------------------- claims on the learned patterns
\* the last call of updateLearningPatterns stored its task_patterns
learned == reviewing.runs > 0 /\ reviewing.saved

slotsBefore == reviewing.currentPatterns.productiveTimeSlots

slotsAfter == learning_data.task_patterns[1].productiveTimeSlots

hoursSeen == reviewing.performanceData.productiveHours

labels(slots) == {slots[k].time : k \in DOMAIN slots}

weightIn(slots, time) ==
    IF time \in labels(slots)
    THEN slots[CHOOSE k \in DOMAIN slots : slots[k].time = time].weight
    ELSE 0

\* the weight the merge gives a label: the prior weight of a stored slot, plus
\* 1 when the period shows the label; 1 for a label seen for the first time
mergedWeight(time) ==
    weightIn(slotsBefore, time)
    + IF \E k \in DOMAIN hoursSeen : hoursSeen[k] = time THEN 1 ELSE 0

mergedLabels == labels(slotsBefore) \cup {hoursSeen[k] : k \in DOMAIN hoursSeen}

\* C31: updateProductiveTimeSlots returns one record per distinct slot label,
\* each stored slot with its prior weight plus 1 if the period shows it again,
\* each first-seen label with weight 1, sorted by weight descending and cut to
\* the 5 heaviest.
C31_SlotMerge ==
    learned =>
       /\ Len(slotsAfter) = IF Cardinality(mergedLabels) < 5
                            THEN Cardinality(mergedLabels) ELSE 5
       /\ Cardinality(labels(slotsAfter)) = Len(slotsAfter)
       /\ labels(slotsAfter) \subseteq mergedLabels
       /\ \A k \in DOMAIN slotsAfter :
             slotsAfter[k].weight = mergedWeight(slotsAfter[k].time)
       /\ \A k \in 1..(Len(slotsAfter) - 1) :
             slotsAfter[k].weight >= slotsAfter[k + 1].weight
       /\ \A time \in mergedLabels \ labels(slotsAfter) :
             \A k \in DOMAIN slotsAfter : slotsAfter[k].weight >= mergedWeight(time)

\* the example: [{9:00-10:00, 2}] with [9:00-10:00, 14:00-15:00]
C31_Witness ==
    /\ learned
    /\ slotsBefore = <<[time |-> "9:00-10:00", weight |-> 2]>>
    /\ hoursSeen = <<"9:00-10:00", "14:00-15:00">>
    /\ slotsAfter = <<[time |-> "9:00-10:00", weight |-> 3],
                      [time |-> "14:00-15:00", weight |-> 1]>>

\* the priority-effectiveness entry of a list, the initial one when none is
\* stored
entryOf(effectiveness, priority) ==
    IF effectiveness[priority] = <<>>
    THEN [completionRate |-> 0, avgDelay |-> 0, count |-> 0]
    ELSE effectiveness[priority][1]

\* C32: a call adds to each priority's stored count the number of its completed
\* tasks and recomputes the ratio as the running mean with one more success
\* per completed task, (ratio * (count - 1) + 1) / count; missed tasks change
\* neither; over any sequence of calls the count is the number of completed
\* tasks observed for the priority and the ratio never decreases.
C32_PriorityEffectiveness ==
    /\ \A priority \in Priorities : storedCount(priority) = reviewing.completed[priority]
    /\ learned =>
          \A priority \in Priorities :
             LET k == numberOf(reviewing.performanceData.completedTasks, priority)
                 before == entryOf(reviewing.currentPatterns.priorityEffectiveness,
                                   priority)
                 after == entryOf(storedPatterns.priorityEffectiveness, priority)
             IN  /\ after.count = before.count + k
                 /\ after.completionRate * after.count
                    = before.completionRate * before.count + k
                 /\ after.completionRate >= before.completionRate
                 /\ k = 0 => storedPatterns.priorityEffectiveness[priority]
                             = reviewing.currentPatterns.priorityEffectiveness[priority]

\* a period with completed and missed High tasks updates a stored High entry,
\* and a stored Low entry has met a period with a missed Low task only
C32_Witness ==
    /\ learned
    /\ reviewing.currentPatterns.priorityEffectiveness["High"] # <<>>
    /\ reviewing.currentPatterns.priorityEffectiveness["Low"] # <<>>
    /\ numberOf(reviewing.performanceData.completedTasks, "High") = 3
    /\ numberOf(reviewing.performanceData.missedTasks, "High") = 1
    /\ storedCount("High") >= 4

\* the number 1
One == dividedBy(1, 1)

inUnitInterval(x) == atMost(Zero, x) /\ atMost(x, One)

\* C33: after any sequence of calls from an empty store every stored slot
\* weight is at least 0, every stored completion rate and every stored
\* priority-effectiveness ratio is in [0, 1], and at most 5 slots are stored.
C33_LearningInvariants ==
    /\ Len(storedPatterns.productiveTimeSlots) <= 5
    /\ \A k \in DOMAIN storedPatterns.productiveTimeSlots :
          storedPatterns.productiveTimeSlots[k].weight >= 0
    /\ \A priority \in Priorities :
          /\ storedPatterns.taskCompletionRates[priority] # <<>> =>
                inUnitInterval(storedPatterns.taskCompletionRates[priority][1])
          /\ storedPatterns.priorityEffectiveness[priority] # <<>> =>
                /\ storedPatterns.priorityEffectiveness[priority][1].completionRate >= 0
                /\ storedPatterns.priorityEffectiveness[priority][1].completionRate <= 1

\* a call that met a sixth label has stored five slots, and a blended rate
\* strictly between 0 and 1 is stored
C33_Witness ==
    /\ learned
    /\ Cardinality(mergedLabels) = 6
    /\ Len(slotsAfter) = 5
    /\ \E priority \in Priorities :
          /\ reviewing.currentPatterns.taskCompletionRates[priority] # <<>>
          /\ storedPatterns.taskCompletionRates[priority]
             # reviewing.currentPatterns.taskCompletionRates[priority]
          /\ storedPatterns.taskCompletionRates[priority][1] \notin {Zero, One}

\* C38: once five productive slots are stored, no later call changes the set
\* of stored slot labels, and no stored weight shrinks: a label seen for the
\* first time has weight 1 and is ordered after every stored slot before the
\* cut to 5.
C38_SlotsFreeze ==
    [][Len(storedPatterns.productiveTimeSlots) = 5 =>
          /\ labels(storedPatterns.productiveTimeSlots')
             = labels(storedPatterns.productiveTimeSlots)
          /\ \A time \in labels(storedPatterns.productiveTimeSlots) :
                weightIn(storedPatterns.productiveTimeSlots', time)
                >= weightIn(storedPatterns.productiveTimeSlots, time)]_vars

\* a call met five stored slots and a label not among them, and stored its
\* result, in which a weight has grown
C38_Witness ==
    /\ learned
    /\ Len(slotsBefore) = 5
    /\ \E k \in DOMAIN hoursSeen : hoursSeen[k] \notin labels(slotsBefore)
    /\ \E time \in labels(slotsBefore) :
          weightIn(slotsAfter, time) > weightIn(slotsBefore, time)

\* ------------------------------------------- claims on the hand-off
\* C35: the plan a workflow's executor phase executes is the plan stored by
\* that workflow's planner phase, made from the snapshot stored by that
\* workflow's collector phase, whatever collector and planner runs the timers
\* and requests start during the workflow.
C35_Handoff ==
    \A r \in Calls :
        (r.job = "fullWorkflow" /\ r.executed # <<>>) =>
            /\ r.executed[1].by = r.planned
            /\ r.executed[1].data = r.collected

\* ------------------------------------------- claims on the executor
\* the calendar events made for one entry of one plan
eventsOf(timestamp, title) ==
    {i \in DOMAIN services.calendar :
        /\ services.calendar[i].planTimestamp = timestamp
        /\ services.calendar[i].summary = title}

\* C36: however often the executor runs on the stored plan, each schedule
\* entry of that plan has at most one calendar event: a repeated run updates
\* the event it made before and never inserts a second one for the entry
C36_OneEventPerEntry ==
    db.latest_plan # <<>> =>
        \A k \in DOMAIN db.latest_plan[1].schedule :
            Cardinality(eventsOf(db.latest_plan[1].timestamp,
                                 db.latest_plan[1].schedule[k].title)) <= 1

====
